---- MODULE Spec2Model ----
(***************************************************************************)
(* A model of the tutorial notebooks of the repository: the install cell   *)
(* shared by every notebook, the bundle-adjustment notebook (part_000),    *)
(* the camera-position notebook, the deform-mesh notebook and the fit-mesh *)
(* notebook (part_001).                                                    *)
(*                                                                         *)
(* Each notebook is a sequential program; every group of variables below   *)
(* belongs to one notebook (or to one pure function of a notebook) and     *)
(* each specification runs one of them while the other groups stay idle.   *)
(*                                                                         *)
(* Tensors of floats are modelled by integers counted in grid units; where *)
(* the code divides or multiplies floats the model rounds the exact result *)
(* to the grid (RoundDiv), the way a float operation rounds its result.    *)
(***************************************************************************)
EXTENDS Integers, Sequences, FiniteSets, TLC

VARIABLES
    \* ---- install cell (the first code cell of every notebook)
    inst_pc,            \* position in the cell
    import_outcome,     \* what "import pytorch3d" does in this kernel
    torch_version,      \* torch.__version__, a sequence of characters
    platform,           \* sys.platform, a sequence of characters
    cuda,               \* torch.version.cuda: a sequence of characters or None
    py_minor,           \* sys.version_info.minor
    need_pytorch3d,     \* the flag of the cell
    version_str,        \* the wheel directory name built by the cell
    environ,            \* the names set in os.environ by the cell
    commands,           \* the shell commands (! lines) run so far, in order
    triggered,          \* the body of "if need_pytorch3d:" was entered
    \* ---- bundle adjustment (part_000), the optimization cell
    ba_pc, it, log_R_absolute, T_absolute, grad_log_R, grad_T,
    buf_log_R, buf_T, cam_log_R, cam_T, ba_plots, ba_steps,
    \* ---- get_relative_camera (part_000) applied to drawn cameras
    rc_pc, rc_cams, rc_edges, rc_out,
    \* ---- calc_camera_distance (part_000) applied to drawn cameras
    cd_pc, cd_cam_1, cd_cam_2, cd_out,
    \* ---- camera position optimization, the loop cell
    cp_pc, cp_i, cp_loss, cp_position, cp_loss_position, cp_frames,
    cp_executed, cp_break, cp_closed,
    \* ---- camera position optimization, Model.__init__
    mi_pc, mi_image, image_ref,
    \* ---- normalization of the target mesh and the save cell's inverse
    nz_pc, nz_notebook, nz_orig, nz_verts, center, scale, nz_restored,
    \* ---- deform-mesh / fit-mesh optimization loops and the save cell
    df_pc, df_notebook, df_stage, df_i, deform_verts, df_grad, df_buf,
    new_src_mesh, final_verts, df_steps,
    \* ---- fit-mesh loops (part_001): the views of one iteration
    vw_pc, vw_i, vw_views, vw_k, view_loss, vw_loss, vw_used,
    \* ---- deform-mesh loop: the list of the chamfer losses
    chamfer_losses,
    \* ---- bundle adjustment run in two fresh kernels on the same input file
    rp_pc, rp_input, rp_it, kernels,
    \* ---- a notebook executed cell by cell in a fresh kernel
    nb_pc, nb_name, nb_next, namespace,
    \* ---- every optimization loop: the operations of the loop so far, in
    \* order, and the gradient of the loss of the current iteration
    ops, loss_grad,
    \* ---- deform-mesh / fit-mesh loops: what the loop displays and records,
    \* and the data it reads
    df_plots,           \* the meshes plotted so far, with stage and iteration
    losses,             \* per loss term, the list of its recorded values
    loss_dict,          \* loss, the terms of the current iteration
    sum_terms,          \* the terms added into the weighted sum, in order
    src_mesh,           \* the source sphere
    targets,            \* the target data the loop reads
    \* ---- camera position optimization: the model's mesh and image buffer
    meshes, cp_image_ref

instVars == <<inst_pc, import_outcome, torch_version, platform, cuda, py_minor,
              need_pytorch3d, version_str, environ, commands, triggered>>
baVars == <<ba_pc, it, log_R_absolute, T_absolute, grad_log_R, grad_T,
            buf_log_R, buf_T, cam_log_R, cam_T, ba_plots, ba_steps>>
rcVars == <<rc_pc, rc_cams, rc_edges, rc_out>>
cdVars == <<cd_pc, cd_cam_1, cd_cam_2, cd_out>>
cpVars == <<cp_pc, cp_i, cp_loss, cp_position, cp_loss_position, cp_frames,
            cp_executed, cp_break, cp_closed>>
miVars == <<mi_pc, mi_image, image_ref>>
nzVars == <<nz_pc, nz_notebook, nz_orig, nz_verts, center, scale, nz_restored>>
dfVars == <<df_pc, df_notebook, df_stage, df_i, deform_verts, df_grad, df_buf,
            new_src_mesh, final_verts, df_steps>>
vwVars == <<vw_pc, vw_i, vw_views, vw_k, view_loss, vw_loss, vw_used>>
\* the groups added after the first eight
chVars == <<chamfer_losses>>
rpVars == <<rp_pc, rp_input, rp_it, kernels>>
nbVars == <<nb_pc, nb_name, nb_next, namespace>>
lpVars == <<ops, loss_grad>>
obsDfVars == <<df_plots, losses, loss_dict, sum_terms, src_mesh, targets>>
obsCpVars == <<meshes, cp_image_ref>>
restVars == <<vwVars, chVars, rpVars, nbVars>>
vars == <<instVars, baVars, rcVars, cdVars, cpVars, miVars, nzVars, dfVars, restVars,
          lpVars, obsDfVars, obsCpVars>>

\* the variables every action of one notebook leaves alone
othersInst == <<baVars, rcVars, cdVars, cpVars, miVars, nzVars, dfVars, restVars, lpVars,
               obsDfVars, obsCpVars>>
othersBa == <<instVars, rcVars, cdVars, cpVars, miVars, nzVars, dfVars, restVars,
             obsDfVars, obsCpVars>>
othersRc == <<instVars, baVars, cdVars, cpVars, miVars, nzVars, dfVars, restVars, lpVars,
               obsDfVars, obsCpVars>>
othersCd == <<instVars, baVars, rcVars, cpVars, miVars, nzVars, dfVars, restVars, lpVars,
               obsDfVars, obsCpVars>>
othersCp == <<instVars, baVars, rcVars, cdVars, miVars, nzVars, dfVars, restVars,
             obsDfVars>>
othersMi == <<instVars, baVars, rcVars, cdVars, cpVars, nzVars, dfVars, restVars, lpVars,
               obsDfVars, obsCpVars>>
othersNz == <<instVars, baVars, rcVars, cdVars, cpVars, miVars, dfVars, restVars, lpVars,
               obsDfVars, obsCpVars>>
othersDf == <<instVars, baVars, rcVars, cdVars, cpVars, miVars, nzVars, restVars,
             obsCpVars>>

\* Python's None where a sequence of characters is expected
None == <<"None">>

coreVars == <<instVars, baVars, rcVars, cdVars, cpVars, miVars, nzVars, dfVars>>
coreVarsButDf == <<instVars, baVars, rcVars, cdVars, cpVars, miVars, nzVars>>
othersVw == <<coreVars, chVars, rpVars, nbVars, lpVars, obsDfVars, obsCpVars>>
othersRp == <<coreVars, vwVars, chVars, nbVars, lpVars, obsDfVars, obsCpVars>>
othersNb == <<coreVars, vwVars, chVars, rpVars, lpVars, obsDfVars, obsCpVars>>

(***************************************************************************)
(* The state of a notebook that is not run.                                *)
(***************************************************************************)
InstIdle ==
    /\ inst_pc = "idle"
    /\ import_outcome = "ok"
    /\ torch_version = <<>>
    /\ platform = <<>>
    /\ cuda = None
    /\ py_minor = 7
    /\ need_pytorch3d = FALSE
    /\ version_str = <<>>
    /\ environ = {}
    /\ commands = <<>>
    /\ triggered = FALSE

BaIdle ==
    /\ ba_pc = "idle"
    /\ it = 0
    /\ log_R_absolute = <<>>
    /\ T_absolute = <<>>
    /\ grad_log_R = <<>>
    /\ grad_T = <<>>
    /\ buf_log_R = <<>>
    /\ buf_T = <<>>
    /\ cam_log_R = <<>>
    /\ cam_T = <<>>
    /\ ba_plots = <<>>
    /\ ba_steps = 0

RcIdle ==
    /\ rc_pc = "idle"
    /\ rc_cams = <<>>
    /\ rc_edges = <<>>
    /\ rc_out = <<>>

CdIdle ==
    /\ cd_pc = "idle"
    /\ cd_cam_1 = <<>>
    /\ cd_cam_2 = <<>>
    /\ cd_out = <<>>

CpIdle ==
    /\ cp_pc = "idle"
    /\ cp_i = 0
    /\ cp_loss = 0
    /\ cp_position = 0
    /\ cp_loss_position = 0
    /\ cp_frames = <<>>
    /\ cp_executed = {}
    /\ cp_break = -1
    /\ cp_closed = 0

MiIdle ==
    /\ mi_pc = "idle"
    /\ mi_image = <<>>
    /\ image_ref = <<>>

NzIdle ==
    /\ nz_pc = "idle"
    /\ nz_notebook = "deform"
    /\ nz_orig = <<>>
    /\ nz_verts = <<>>
    /\ center = <<>>
    /\ scale = 0
    /\ nz_restored = <<>>

VwIdle ==
    /\ vw_pc = "idle"
    /\ vw_i = 0
    /\ vw_views = <<>>
    /\ vw_k = 0
    /\ view_loss = <<>>
    /\ vw_loss = <<0, 1>>
    /\ vw_used = <<>>

ChIdle == chamfer_losses = <<>>

RpIdle ==
    /\ rp_pc = "idle"
    /\ rp_input = <<>>
    /\ rp_it = 0
    /\ kernels = <<>>

NbIdle ==
    /\ nb_pc = "idle"
    /\ nb_name = ""
    /\ nb_next = 0
    /\ namespace = {}

LpIdle ==
    /\ ops = <<>>
    /\ loss_grad = <<>>

RestIdle == VwIdle /\ ChIdle /\ RpIdle /\ NbIdle /\ LpIdle

ObsDfIdle ==
    /\ df_plots = <<>>
    /\ losses = <<>>
    /\ loss_dict = <<>>
    /\ sum_terms = <<>>
    /\ src_mesh = <<>>
    /\ targets = <<>>

ObsCpIdle ==
    /\ meshes = <<>>
    /\ cp_image_ref = <<>>

DfIdle ==
    /\ df_pc = "idle"
    /\ df_notebook = "deform"
    /\ df_stage = "deform"
    /\ df_i = 0
    /\ deform_verts = <<>>
    /\ df_grad = <<>>
    /\ df_buf = <<>>
    /\ new_src_mesh = <<>>
    /\ final_verts = <<>>
    /\ df_steps = 0

(***************************************************************************)
(* Helpers: sequences, vectors, rounding.                                  *)
(***************************************************************************)
RECURSIVE SumSeq(_)
SumSeq(s) == IF s = <<>> THEN 0 ELSE Head(s) + SumSeq(Tail(s))

Abs(x) == IF x < 0 THEN -x ELSE x

RECURSIVE MaxSeq(_)
MaxSeq(s) == IF Len(s) = 1 THEN s[1]
             ELSE LET m == MaxSeq(Tail(s)) IN IF s[1] >= m THEN s[1] ELSE m

\* a / b rounded to the nearest integer (halves upwards), b > 0
RoundDiv(a, b) == (2 * a + b) \div (2 * b)

VecAdd(u, v) == [k \in 1..3 |-> u[k] + v[k]]
VecSub(u, v) == [k \in 1..3 |-> u[k] - v[k]]
VecScale(u, c) == [k \in 1..3 |-> u[k] * c]
Zero3 == <<0, 0, 0>>

(***************************************************************************)
(* The install cell.  The five notebooks carry the same cell.              *)
(***************************************************************************)
TorchVersions ==
    { <<"1", ".", "1", "0", ".", "0">>,
      <<"1", ".", "1", "0", ".", "2">>,
      <<"1", ".", "9", ".", "1">>,
      <<"1", ".", "1", "1", ".", "0">> }
Platforms ==
    { <<"l", "i", "n", "u", "x">>,
      <<"d", "a", "r", "w", "i", "n">>,
      <<"w", "i", "n", "3", "2">> }
CudaVersions == { None, <<"1", "1", ".", "3">>, <<"1", "0", ".", "2">> }
PyMinors == {7, 8}
ImportOutcomes == {"ok", "ModuleNotFoundError", "ImportError"}

\* str.startswith
StartsWith(s, prefix) ==
    /\ Len(s) >= Len(prefix)
    /\ SubSeq(s, 1, Len(prefix)) = prefix

\* str.replace(".", "")
RECURSIVE RemoveDots(_)
RemoveDots(s) ==
    IF s = <<>> THEN <<>>
    ELSE IF Head(s) = "." THEN RemoveDots(Tail(s))
    ELSE <<Head(s)>> \o RemoveDots(Tail(s))

\* s[0:5:2]: the characters at the (0-based) positions 0, 2, 4 that exist
SliceEven5(s) ==
    LET idx == SelectSeq(<<1, 3, 5>>, LAMBDA p : p <= Len(s))
    IN  [k \in 1..Len(idx) |-> s[idx[k]]]

\* the exception classes the cell's "except" clause catches
CaughtAll(exc) == exc \in {"ModuleNotFoundError", "ImportError"}
Caught(exc) == exc = "ModuleNotFoundError"

\* a route condition that looks at the torch version only
WheelRoute_anyPlatform(tv, pf) ==
    StartsWith(tv, <<"1", ".", "1", "0", ".">>)

\* the condition that selects the released-wheel route
WheelRoute(tv, pf) ==
    /\ StartsWith(tv, <<"1", ".", "1", "0", ".">>)
    /\ StartsWith(pf, <<"l", "i", "n", "u", "x">>)

\* the decimal digit d as a character (f"{minor}" of a one-digit minor)
DigitChar(d) == <<"0", "1", "2", "3", "4", "5", "6", "7", "8", "9">>[d + 1]

\* "".join([f"py3{minor}_cu", cuda.replace(".", ""), f"_pyt{version[0:5:2]}"])
VersionStr(minor, cu, tv) ==
    <<"p", "y", "3", DigitChar(minor), "_", "c", "u">> \o RemoveDots(cu)
        \o <<"_", "p", "y", "t">> \o SliceEven5(tv)

InstInit ==
    /\ RestIdle /\ ObsDfIdle /\ ObsCpIdle
    /\ BaIdle /\ RcIdle /\ CdIdle /\ CpIdle /\ MiIdle /\ NzIdle /\ DfIdle
    /\ inst_pc = "try_import"
    /\ import_outcome \in ImportOutcomes
    /\ torch_version \in TorchVersions
    /\ platform \in Platforms
    /\ cuda \in CudaVersions
    /\ py_minor \in PyMinors
    /\ need_pytorch3d = FALSE
    /\ version_str = <<>>
    /\ environ = {}
    /\ commands = <<>>
    /\ triggered = FALSE

\* try: import pytorch3d / except ModuleNotFoundError: need_pytorch3d=True
InstTryImport ==
    /\ inst_pc = "try_import"
    /\ IF import_outcome = "ok"
       THEN inst_pc' = "check_need" /\ UNCHANGED need_pytorch3d
       ELSE IF Caught(import_outcome)
       THEN inst_pc' = "check_need" /\ need_pytorch3d' = TRUE
       ELSE inst_pc' = "raised" /\ UNCHANGED need_pytorch3d
    /\ UNCHANGED <<import_outcome, torch_version, platform, cuda, py_minor,
                   version_str, environ, commands, triggered>>
    /\ UNCHANGED othersInst

\* if need_pytorch3d: if <wheel route condition>: ... else: ...
InstCheckNeed ==
    /\ inst_pc = "check_need"
    /\ IF need_pytorch3d
       THEN /\ triggered' = TRUE
            /\ inst_pc' = IF WheelRoute(torch_version, platform)
                          THEN "wheel_version" ELSE "src_curl"
       ELSE /\ inst_pc' = "done"
            /\ UNCHANGED triggered
    /\ UNCHANGED <<import_outcome, torch_version, platform, cuda, py_minor,
                   need_pytorch3d, version_str, environ, commands>>
    /\ UNCHANGED othersInst

\* version_str = "".join([...]); None has no method replace
InstWheelVersion ==
    /\ inst_pc = "wheel_version"
    /\ IF cuda = None
       THEN inst_pc' = "raised" /\ UNCHANGED version_str
       ELSE /\ version_str' = VersionStr(py_minor, cuda, torch_version)
            /\ inst_pc' = "wheel_pip"
    /\ UNCHANGED <<import_outcome, torch_version, platform, cuda, py_minor,
                   need_pytorch3d, environ, commands, triggered>>
    /\ UNCHANGED othersInst

\* !pip install pytorch3d -f .../wheels/{version_str}/download.html
InstWheelPip ==
    /\ inst_pc = "wheel_pip"
    /\ commands' = Append(commands, "pip install wheel")
    /\ inst_pc' = "done"
    /\ UNCHANGED <<import_outcome, torch_version, platform, cuda, py_minor,
                   need_pytorch3d, version_str, environ, triggered>>
    /\ UNCHANGED othersInst

\* !curl -LO https://github.com/NVIDIA/cub/archive/1.10.0.tar.gz
InstSrcCurl ==
    /\ inst_pc = "src_curl"
    /\ commands' = Append(commands, "curl cub")
    /\ inst_pc' = "src_tar"
    /\ UNCHANGED <<import_outcome, torch_version, platform, cuda, py_minor,
                   need_pytorch3d, version_str, environ, triggered>>
    /\ UNCHANGED othersInst

\* !tar xzf 1.10.0.tar.gz
InstSrcTar ==
    /\ inst_pc = "src_tar"
    /\ commands' = Append(commands, "tar cub")
    /\ inst_pc' = "src_env"
    /\ UNCHANGED <<import_outcome, torch_version, platform, cuda, py_minor,
                   need_pytorch3d, version_str, environ, triggered>>
    /\ UNCHANGED othersInst

\* os.environ["CUB_HOME"] = os.getcwd() + "/cub-1.10.0"
InstSrcEnv ==
    /\ inst_pc = "src_env"
    /\ environ' = environ \cup {"CUB_HOME"}
    /\ inst_pc' = "src_pip"
    /\ UNCHANGED <<import_outcome, torch_version, platform, cuda, py_minor,
                   need_pytorch3d, version_str, commands, triggered>>
    /\ UNCHANGED othersInst

\* !pip install 'git+https://github.com/facebookresearch/pytorch3d.git@stable'
InstSrcPip ==
    /\ inst_pc = "src_pip"
    /\ commands' = Append(commands, "pip install source")
    /\ inst_pc' = "done"
    /\ UNCHANGED <<import_outcome, torch_version, platform, cuda, py_minor,
                   need_pytorch3d, version_str, environ, triggered>>
    /\ UNCHANGED othersInst

InstNext ==
    \/ InstTryImport
    \/ InstCheckNeed
    \/ InstWheelVersion
    \/ InstWheelPip
    \/ InstSrcCurl
    \/ InstSrcTar
    \/ InstSrcEnv
    \/ InstSrcPip

SpecInstall == InstInit /\ [][InstNext]_vars

InstFinished == inst_pc \in {"done", "raised"}

\* C1 (as stated): whenever the attempt to import pytorch3d fails the
\* installation routine is triggered, and when the import succeeds no
\* installation command is run.
C1_ImportFailureTriggersInstall ==
    InstFinished =>
        /\ (import_outcome # "ok" => triggered)
        /\ (import_outcome = "ok" => commands = <<>>)

\* C1 (amended): the installation routine is triggered exactly when the import
\* fails with ModuleNotFoundError; an import that fails with another exception
\* ends the cell with that exception and no installation command, and a
\* successful import runs no installation command.
C1_ModuleNotFoundTriggersInstall ==
    /\ (triggered => import_outcome = "ModuleNotFoundError")
    /\ (import_outcome = "ModuleNotFoundError"
            /\ inst_pc \notin {"try_import", "check_need"} => triggered)
    /\ (import_outcome # "ModuleNotFoundError" => commands = <<>>)
    /\ (import_outcome = "ImportError" /\ inst_pc # "try_import"
            => inst_pc = "raised")

\* a missing module: the routine was entered and its pip install has run
C1_Witness ==
    /\ inst_pc = "done"
    /\ import_outcome = "ModuleNotFoundError"
    /\ triggered
    /\ commands # <<>>

(***************************************************************************)
(* Bundle adjustment (part_000): the optimization cell.                    *)
(* Cameras are indexed 0..N-1 as in the notebook.  A tensor of shape       *)
(* (N, 3) is a function from 0..N-1 to vectors; values are counted in      *)
(* tenths.                                                                 *)
(***************************************************************************)
\* N = R_absolute_gt.shape[0], the number of cameras in the loaded graph
NumCameras == 2
\* n_iter, the number of iterations (2000 in the notebook)
n_iter == 3
\* the period of the status plot
PlotEvery == 200

CameraIds == 0..(NumCameras - 1)

\* torch.randn(N, 3) after torch.manual_seed(42): one fixed draw
RandnRow(n) == <<10 * n, -10 * n, 20>>

\* the gradients of the loss with respect to one row of a camera tensor
\* that backward() may hand to the masked product
UpstreamGrads == { <<0, 0, 0>>, <<10, -20, 30>> }

\* camera_mask = torch.ones(N, 1); camera_mask[0] = 0.
camera_mask_ones(n) == 1
camera_mask(n) == IF n = 0 THEN 0 ELSE 1

\* log_R_absolute * camera_mask and T_absolute * camera_mask (broadcast
\* over the three columns)
Masked(tensor) == [n \in CameraIds |-> VecScale(tensor[n], camera_mask(n))]

\* the gradient that backward() leaves on a parameter p used as
\* p * camera_mask: the upstream gradient times the mask
MaskedGrad_unmasked(upstream) == upstream
MaskedGrad(upstream) ==
    [n \in CameraIds |-> VecScale(upstream[n], camera_mask(n))]

\* torch.optim.SGD(..., lr=.1, momentum=0.9): <<numerator, denominator>>
BaLr == <<1, 10>>
BaMomentum == <<9, 10>>

\* one SGD step with momentum on one tensor: the new momentum buffer
\* (the buffer starts as the first gradient, which is what 0.9 * 0 + grad is)
SGDBuf(buf, grad, momentum) ==
    [n \in DOMAIN buf |->
        [k \in 1..3 |-> RoundDiv(momentum[1] * buf[n][k], momentum[2]) + grad[n][k]]]
\* ... and the new parameter value p - lr * buf
SGDParam_none(p, buf, lr) == p
SGDParam(p, buf, lr) ==
    [n \in DOMAIN p |-> [k \in 1..3 |-> p[n][k] - RoundDiv(lr[1] * buf[n][k], lr[2])]]

ZeroTensor_stale == [n \in CameraIds |-> <<1, 1, 1>>]
ZeroTensor == [n \in CameraIds |-> Zero3]

\* the state after the initialisation at the top of the cell
BaInit ==
    /\ RestIdle /\ ObsDfIdle /\ ObsCpIdle
    /\ InstIdle /\ RcIdle /\ CdIdle /\ CpIdle /\ MiIdle /\ NzIdle /\ DfIdle
    /\ ba_pc = "zero_grad"
    /\ it = 0
    /\ log_R_absolute = [n \in CameraIds |-> IF n = 0 THEN Zero3 ELSE RandnRow(n)]
    /\ T_absolute = [n \in CameraIds |-> IF n = 0 THEN Zero3 ELSE RandnRow(n + 1)]
    /\ grad_log_R = ZeroTensor
    /\ grad_T = ZeroTensor
    /\ buf_log_R = ZeroTensor
    /\ buf_T = ZeroTensor
    /\ cam_log_R = ZeroTensor
    /\ cam_T = ZeroTensor
    /\ ba_plots = <<>>
    /\ ba_steps = 0

\* for it in range(n_iter): optimizer.zero_grad()
BaZeroGrad ==
    /\ ba_pc = "zero_grad"
    /\ it < n_iter
    /\ grad_log_R' = ZeroTensor
    /\ grad_T' = ZeroTensor
    /\ ba_pc' = "forward"
    /\ UNCHANGED <<it, log_R_absolute, T_absolute, buf_log_R, buf_T, cam_log_R,
                   cam_T, ba_plots, ba_steps>>
    /\ ops' = Append(ops, "zero_grad")
    /\ UNCHANGED loss_grad
    /\ UNCHANGED othersBa

\* R_absolute = so3_exp_map(log_R_absolute * camera_mask);
\* cameras_absolute = SfMPerspectiveCameras(R_absolute, T_absolute * camera_mask);
\* cam_log_R holds the log-rotations of cameras_absolute, cam_T its translations
BaForward ==
    /\ ba_pc = "forward"
    /\ cam_log_R' = Masked(log_R_absolute)
    /\ cam_T' = Masked(T_absolute)
    /\ ba_pc' = "relative"
    /\ UNCHANGED <<it, log_R_absolute, T_absolute, grad_log_R, grad_T, buf_log_R,
                   buf_T, ba_plots, ba_steps>>
    /\ ops' = Append(ops, "forward")
    /\ UNCHANGED loss_grad
    /\ UNCHANGED othersBa

\* cameras_relative_composed = get_relative_camera(cameras_absolute, ...);
\* camera_distance = calc_camera_distance(...); camera_distance.backward()
BaBackward ==
    /\ ba_pc = "relative"
    /\ \E up_R \in [CameraIds -> UpstreamGrads], up_T \in [CameraIds -> UpstreamGrads] :
          /\ grad_log_R' = [n \in CameraIds |-> VecAdd(grad_log_R[n], MaskedGrad(up_R)[n])]
          /\ grad_T' = [n \in CameraIds |-> VecAdd(grad_T[n], MaskedGrad(up_T)[n])]
          /\ loss_grad' = <<MaskedGrad(up_R), MaskedGrad(up_T)>>
    /\ ba_pc' = "step"
    /\ UNCHANGED <<it, log_R_absolute, T_absolute, buf_log_R, buf_T, cam_log_R,
                   cam_T, ba_plots, ba_steps>>
    /\ ops' = Append(ops, "backward")
    /\ UNCHANGED othersBa

\* optimizer.step()
BaStep ==
    /\ ba_pc = "step"
    /\ buf_log_R' = SGDBuf(buf_log_R, grad_log_R, BaMomentum)
    /\ buf_T' = SGDBuf(buf_T, grad_T, BaMomentum)
    /\ log_R_absolute' = SGDParam(log_R_absolute, buf_log_R', BaLr)
    /\ T_absolute' = SGDParam(T_absolute, buf_T', BaLr)
    /\ ba_steps' = ba_steps + 1
    /\ ba_pc' = "status"
    /\ UNCHANGED <<it, grad_log_R, grad_T, cam_log_R, cam_T, ba_plots>>
    /\ ops' = Append(ops, "step")
    /\ UNCHANGED loss_grad
    /\ UNCHANGED othersBa

\* if it % 200==0 or it==n_iter-1: plot_camera_scene(cameras_absolute, ...)
\* the same test in a loop of n iterations
StatusDueAt(i, n) == i % PlotEvery = 0 \/ i = n - 1
StatusDue_periodic(i) == i % PlotEvery = 0
StatusDue(i) == StatusDueAt(i, n_iter)

BaStatus ==
    /\ ba_pc = "status"
    /\ ba_plots' = IF StatusDue(it)
                   THEN Append(ba_plots, [it |-> it, log_R |-> cam_log_R, T |-> cam_T])
                   ELSE ba_plots
    /\ it' = it + 1
    /\ ba_pc' = "zero_grad"
    /\ UNCHANGED <<log_R_absolute, T_absolute, grad_log_R, grad_T, buf_log_R,
                   buf_T, cam_log_R, cam_T, ba_steps>>
    /\ UNCHANGED lpVars
    /\ UNCHANGED othersBa

\* print('Optimization finished.')
BaFinish ==
    /\ ba_pc = "zero_grad"
    /\ it = n_iter
    /\ ba_pc' = "finished"
    /\ UNCHANGED <<it, log_R_absolute, T_absolute, grad_log_R, grad_T, buf_log_R,
                   buf_T, cam_log_R, cam_T, ba_plots, ba_steps>>
    /\ UNCHANGED lpVars
    /\ UNCHANGED othersBa

BaNext ==
    \/ BaZeroGrad
    \/ BaForward
    \/ BaBackward
    \/ BaStep
    \/ BaStatus
    \/ BaFinish

SpecBundle == BaInit /\ [][BaNext]_vars

\* C2: at every iteration the absolute camera with index 0 that enters
\* get_relative_camera is the trivial camera: its log-rotation is the zero
\* vector and its translation is the zero vector.
C2_FirstCameraTrivial ==
    ba_pc = "relative" =>
        /\ cam_log_R[0] = Zero3
        /\ cam_T[0] = Zero3

\* an iteration after the first step, about to call get_relative_camera with
\* camera 1 moved away from its initial value
C2_Witness ==
    /\ ba_pc = "relative"
    /\ it >= 1
    /\ log_R_absolute[1] # RandnRow(1)
    /\ cam_log_R[1] = log_R_absolute[1]
    /\ cam_log_R[1] # Zero3

\* C3: after every optimizer.step(), row 0 of log_R_absolute and row 0 of
\* T_absolute still equal their initial value zero; their gradient and their
\* momentum are zero in every iteration.
C3_FirstCameraNotOptimized ==
    ba_pc # "idle" =>
        /\ log_R_absolute[0] = Zero3
        /\ T_absolute[0] = Zero3
        /\ grad_log_R[0] = Zero3
        /\ grad_T[0] = Zero3
        /\ buf_log_R[0] = Zero3
        /\ buf_T[0] = Zero3

\* two steps were taken and camera 1 was moved by a non-zero gradient
C3_Witness ==
    /\ ba_pc = "status"
    /\ ba_steps >= 2
    /\ grad_log_R[1] # Zero3
    /\ buf_T[1] # Zero3
    /\ log_R_absolute[1] # RandnRow(1)
    /\ T_absolute[1] # RandnRow(2)

(***************************************************************************)
(* Camera position optimization: the loop cell.                            *)
(* The camera position is identified by the number of optimizer steps that *)
(* produced it; a frame records the iteration, the position it was         *)
(* rendered from and the position its displayed loss was computed for.     *)
(***************************************************************************)
\* loop = tqdm(range(200))
CpIters == 200
\* if loss.item() < 200: break
LossThreshold == 200
\* if i % 10 == 0
SavePeriod == 10

\* the values model() may return as the loss
LossValues == {LossThreshold - 1, LossThreshold, LossThreshold + 1}

BreakDue_never(loss) == FALSE
BreakDue(loss) == loss < LossThreshold
SaveDue_shifted(i) == i % SavePeriod = 1
SaveDue(i) == i % SavePeriod = 0

\* model = Model(meshes=teapot_mesh, renderer=silhouette_renderer,
\* image_ref=image_ref): the mesh and the registered buffer of the model
TeapotMesh == << <<1, 0, 0>>, <<0, 1, 0>>, <<0, 0, 1>> >>
ReferenceSilhouette == <<1, 0>>

\* the state when the loop cell starts: the writer is open, nothing written
CpInit ==
    /\ RestIdle /\ ObsDfIdle
    /\ InstIdle /\ BaIdle /\ RcIdle /\ CdIdle /\ MiIdle /\ NzIdle /\ DfIdle
    /\ cp_pc = "zero_grad"
    /\ cp_i = 0
    /\ cp_loss = 0
    /\ cp_position = 0
    /\ cp_loss_position = 0
    /\ cp_frames = <<>>
    /\ cp_executed = {}
    /\ cp_break = -1
    /\ cp_closed = 0
    /\ meshes = TeapotMesh
    /\ cp_image_ref = ReferenceSilhouette

\* for i in loop: optimizer.zero_grad()
CpZeroGrad ==
    /\ cp_pc = "zero_grad"
    /\ cp_i < CpIters
    /\ cp_executed' = cp_executed \cup {cp_i}
    /\ cp_pc' = "forward"
    /\ UNCHANGED <<cp_i, cp_loss, cp_position, cp_loss_position, cp_frames,
                   cp_break, cp_closed>>
    /\ ops' = Append(ops, "zero_grad")
    /\ UNCHANGED loss_grad
    /\ UNCHANGED obsCpVars
    /\ UNCHANGED othersCp

\* loss, _ = model()
CpForward ==
    /\ cp_pc = "forward"
    /\ cp_loss' \in LossValues
    /\ cp_loss_position' = cp_position
    /\ cp_pc' = "backward"
    /\ UNCHANGED <<cp_i, cp_position, cp_frames, cp_executed, cp_break, cp_closed>>
    /\ ops' = Append(ops, "forward")
    /\ UNCHANGED loss_grad
    /\ UNCHANGED obsCpVars
    /\ UNCHANGED othersCp

\* loss.backward()
CpBackward ==
    /\ cp_pc = "backward"
    /\ cp_pc' = "step"
    /\ UNCHANGED <<cp_i, cp_loss, cp_position, cp_loss_position, cp_frames,
                   cp_executed, cp_break, cp_closed>>
    /\ ops' = Append(ops, "backward")
    /\ UNCHANGED loss_grad
    /\ UNCHANGED obsCpVars
    /\ UNCHANGED othersCp

\* optimizer.step() gives model.camera_position its next value: a position
\* is identified by the number of steps that led to it
OptimizerStep_none(position) == position
OptimizerStep(position) == position + 1

\* optimizer.step(): model.camera_position takes a new value
CpStep ==
    /\ cp_pc = "step"
    /\ cp_position' = OptimizerStep(cp_position)
    /\ cp_pc' = "check_break"
    /\ UNCHANGED <<cp_i, cp_loss, cp_loss_position, cp_frames, cp_executed,
                   cp_break, cp_closed>>
    /\ ops' = Append(ops, "step")
    /\ UNCHANGED loss_grad
    /\ UNCHANGED obsCpVars
    /\ UNCHANGED othersCp

\* loop.set_description(...); if loss.item() < 200: break
CpCheckBreak ==
    /\ cp_pc = "check_break"
    /\ IF BreakDue(cp_loss)
       THEN cp_pc' = "close" /\ cp_break' = cp_i
       ELSE cp_pc' = "save" /\ UNCHANGED cp_break
    /\ UNCHANGED <<cp_i, cp_loss, cp_position, cp_loss_position, cp_frames,
                   cp_executed, cp_closed>>
    /\ UNCHANGED lpVars
    /\ UNCHANGED obsCpVars
    /\ UNCHANGED othersCp

\* if i % 10 == 0: render with model.camera_position, writer.append_data(image),
\* plt.title("iter: %d, loss: %0.2f" % (i, loss.data)); then the next iteration
CpSave ==
    /\ cp_pc = "save"
    /\ cp_frames' = IF SaveDue(cp_i)
                    THEN Append(cp_frames, [i |-> cp_i, position |-> cp_position,
                                            loss_position |-> cp_loss_position])
                    ELSE cp_frames
    /\ cp_i' = cp_i + 1
    /\ cp_pc' = "zero_grad"
    /\ UNCHANGED <<cp_loss, cp_position, cp_loss_position, cp_executed, cp_break,
                   cp_closed>>
    /\ UNCHANGED lpVars
    /\ UNCHANGED obsCpVars
    /\ UNCHANGED othersCp

\* range(200) is exhausted
CpExhausted ==
    /\ cp_pc = "zero_grad"
    /\ cp_i = CpIters
    /\ cp_pc' = "close"
    /\ UNCHANGED <<cp_i, cp_loss, cp_position, cp_loss_position, cp_frames,
                   cp_executed, cp_break, cp_closed>>
    /\ UNCHANGED lpVars
    /\ UNCHANGED obsCpVars
    /\ UNCHANGED othersCp

\* writer.close()
CpClose ==
    /\ cp_pc = "close"
    /\ cp_closed' = cp_closed + 1
    /\ cp_pc' = "closed"
    /\ UNCHANGED <<cp_i, cp_loss, cp_position, cp_loss_position, cp_frames,
                   cp_executed, cp_break>>
    /\ UNCHANGED lpVars
    /\ UNCHANGED obsCpVars
    /\ UNCHANGED othersCp

CpNext ==
    \/ CpZeroGrad
    \/ CpForward
    \/ CpBackward
    \/ CpStep
    \/ CpCheckBreak
    \/ CpSave
    \/ CpExhausted
    \/ CpClose

SpecCamPos == CpInit /\ [][CpNext]_vars

\* the number of frames appended to the writer for iteration i
FramesOf(i) == Cardinality({k \in 1..Len(cp_frames) : cp_frames[k].i = i})

\* the body of iteration i has been left (by its end or by break)
IterationOver(i) == i \in cp_executed /\ (i < cp_i \/ cp_pc \in {"close", "closed"})

NumPixels == 2
\* the channel value 1.0 in grid units
ChannelOne == 2

Pixels == [1..4 -> 0..ChannelOne]

\* image_ref[..., :3]
Rgb(pixel) == SubSeq(pixel, 1, 3)

\* (image_ref[..., :3].max(-1) != 1).astype(np.float32), for one pixel
Silhouette(pixel) == IF MaxSeq(Rgb(pixel)) # ChannelOne THEN 1 ELSE 0

\* the reference image rendered by phong_renderer, before Model(...) is built
MiInit ==
    /\ RestIdle /\ ObsDfIdle /\ ObsCpIdle
    /\ InstIdle /\ BaIdle /\ RcIdle /\ CdIdle /\ CpIdle /\ NzIdle /\ DfIdle
    /\ mi_pc = "init"
    /\ mi_image \in [1..NumPixels -> Pixels]
    /\ image_ref = <<>>

\* Model.__init__: self.register_buffer('image_ref', image_ref)
MiRegisterBuffer ==
    /\ mi_pc = "init"
    /\ image_ref' = [p \in 1..NumPixels |-> Silhouette(mi_image[p])]
    /\ mi_pc' = "registered"
    /\ UNCHANGED mi_image
    /\ UNCHANGED othersMi

MiNext ==
    \/ MiRegisterBuffer

SpecModelInit == MiInit /\ [][MiNext]_vars

\* C6: image_ref is 1 exactly at the pixels of the reference RGB image that
\* are non-white (at least one of the three colour channels differs from 1)
\* and 0 at every white pixel.
C6_SilhouetteIsNonWhite ==
    mi_pc = "registered" =>
        \A p \in 1..NumPixels :
            image_ref[p] =
                IF \E c \in 1..3 : mi_image[p][c] # ChannelOne THEN 1 ELSE 0

(***************************************************************************)
(* get_relative_camera (part_000).  A camera is a record of a rotation     *)
(* matrix R (three rows) and a translation T; a batch of cameras is        *)
(* indexed from 0 as in the notebook, the rows of edges and of the result  *)
(* from 1.  Transform3d works on row vectors: x_view = x_world R + T.      *)
(***************************************************************************)
\* the largest number of rows of edges
MaxEdges == 2

Dot(u, v, n) == SumSeq([k \in 1..n |-> u[k] * v[k]])
Column(m, c) == [r \in 1..Len(m) |-> m[r][c]]
\* torch.bmm / Transform3d.compose for one pair of square matrices
MatMul(a, b) ==
    [r \in 1..Len(a) |-> [c \in 1..Len(a) |-> Dot(a[r], Column(b, c), Len(a))]]
Transpose(m) == [r \in 1..Len(m) |-> Column(m, r)]
VecMat(v, m) == [c \in 1..Len(m) |-> Dot(v, Column(m, c), Len(m))]

Identity3 == << <<1, 0, 0>>, <<0, 1, 0>>, <<0, 0, 1>> >>
\* quarter turns about the z and the x axis
RotZ == << <<0, 1, 0>>, <<-1, 0, 0>>, <<0, 0, 1>> >>
RotX == << <<1, 0, 0>>, <<0, 0, 1>>, <<0, -1, 0>> >>
Rotations == {Identity3, RotZ, RotX}
Translations == {Zero3, <<1, 2, 0>>}
Cameras == [R : Rotations, T : Translations]

\* SfMPerspectiveCameras(R, T).get_world_to_view_transform().get_matrix():
\* the 4x4 matrix with R in the upper left block and T in the last row
WorldToView(cam) ==
    << cam.R[1] \o <<0>>, cam.R[2] \o <<0>>, cam.R[3] \o <<0>>, cam.T \o <<1>> >>

\* Transform3d.inverse() of a rigid transform
Inverse(m) ==
    LET R == [r \in 1..3 |-> SubSeq(m[r], 1, 3)]
        T == SubSeq(m[4], 1, 3)
        Rt == Transpose(R)
        Ti == VecMat(VecScale(T, -1), Rt)
    IN  << Rt[1] \o <<0>>, Rt[2] \o <<0>>, Rt[3] \o <<0>>, Ti \o <<1>> >>

\* SfMPerspectiveCameras(R = matrix_rel[:, :3, :3], T = matrix_rel[:, 3, :3])
CameraOfMatrix(m) ==
    [R |-> [r \in 1..3 |-> SubSeq(m[r], 1, 3)], T |-> SubSeq(m[4], 1, 3)]

\* the composition with the two ends of every edge exchanged
get_relative_camera_swapped(cams, edges) ==
    [k \in 1..Len(edges) |->
        CameraOfMatrix(MatMul(Inverse(WorldToView(cams[edges[k][2]])),
                              WorldToView(cams[edges[k][1]])))]

\* get_relative_camera(cams, edges): trans_i and trans_j gather the cameras
\* of the two columns of edges; trans_rel = trans_i.inverse().compose(trans_j)
get_relative_camera(cams, edges) ==
    LET trans_i == [k \in 1..Len(edges) |-> WorldToView(cams[edges[k][1]])]
        trans_j == [k \in 1..Len(edges) |-> WorldToView(cams[edges[k][2]])]
        matrix_rel == [k \in 1..Len(edges) |-> MatMul(Inverse(trans_i[k]), trans_j[k])]
    IN  [k \in 1..Len(edges) |-> CameraOfMatrix(matrix_rel[k])]

EdgeRows == CameraIds \X CameraIds
EdgeLists == UNION {[1..n -> EdgeRows] : n \in 1..MaxEdges}

RcInit ==
    /\ RestIdle /\ ObsDfIdle /\ ObsCpIdle
    /\ InstIdle /\ BaIdle /\ CdIdle /\ CpIdle /\ MiIdle /\ NzIdle /\ DfIdle
    /\ rc_pc = "call"
    /\ rc_cams \in [CameraIds -> Cameras]
    /\ rc_edges \in EdgeLists
    /\ rc_out = <<>>

\* cameras_relative_composed = get_relative_camera(cameras_absolute, relative_edges)
RcCall ==
    /\ rc_pc = "call"
    /\ rc_out' = get_relative_camera(rc_cams, rc_edges)
    /\ rc_pc' = "returned"
    /\ UNCHANGED <<rc_cams, rc_edges>>
    /\ UNCHANGED othersRc

RcNext ==
    \/ RcCall

SpecRelative == RcInit /\ [][RcNext]_vars

\* C8: get_relative_camera(cams, edges) returns exactly one camera per row of
\* edges, in row order; the k-th one is the transform g_i^{-1} g_j of
\* (i, j) = edges[k], that is, the transform that g_i followed by it equals
\* g_j; an edge (i, i) yields the identity transform.
C8_RelativeCameraPerEdge ==
    rc_pc = "returned" =>
        /\ Len(rc_out) = Len(rc_edges)
        /\ \A k \in 1..Len(rc_edges) :
              LET i == rc_edges[k][1]
                  j == rc_edges[k][2]
              IN  /\ MatMul(WorldToView(rc_cams[i]), WorldToView(rc_out[k]))
                        = WorldToView(rc_cams[j])
                  /\ i = j => rc_out[k] = [R |-> Identity3, T |-> Zero3]

\* two edges over two different cameras, the first between different cameras
\* with a relative camera that is not the identity, the second a loop (i, i)
C8_Witness ==
    /\ rc_pc = "returned"
    /\ Len(rc_edges) = 2
    /\ rc_edges[1][1] # rc_edges[1][2]
    /\ rc_edges[2][1] = rc_edges[2][2]
    /\ rc_cams[0] # rc_cams[1]
    /\ rc_cams[rc_edges[2][1]] # [R |-> Identity3, T |-> Zero3]
    /\ rc_out[1].R # Identity3
    /\ rc_out[1].T # Zero3

(***************************************************************************)
(* calc_camera_distance (part_000).  A batch of cameras is a sequence; the *)
(* result is a fraction <<numerator, denominator>> with a positive         *)
(* denominator, so that the two means are computed without rounding.       *)
(***************************************************************************)
\* the largest batch of camera pairs
MaxBatch == 2

FracAdd(a, b) == <<a[1] * b[2] + b[1] * a[2], a[2] * b[2]>>
FracEq(a, b) == a[1] * b[2] = b[1] * a[2]
\* tensor.mean() of a batch of fractions
RECURSIVE FracSum(_)
FracSum(s) == IF s = <<>> THEN <<0, 1>> ELSE FracAdd(Head(s), FracSum(Tail(s)))
FracMean(s) == LET t == FracSum(s) IN <<t[1], t[2] * Len(s)>>

Trace(m) == m[1][1] + m[2][2] + m[3][3]

\* so3_relative_angle(R1, R2, cos_angle=True): the cosine of the angle of
\* R1 R2^T, which is (trace - 1) / 2
so3_relative_angle_cos(R1, R2) == <<Trace(MatMul(R1, Transpose(R2))) - 1, 2>>

\* (1. - so3_relative_angle(cam_1.R, cam_2.R, cos_angle=True)).mean()
R_distance(cam_1, cam_2) ==
    FracMean([k \in 1..Len(cam_1) |->
        LET c == so3_relative_angle_cos(cam_1[k].R, cam_2[k].R)
        IN  <<c[2] - c[1], c[2]>>])

\* ((cam_1.T - cam_2.T)**2).sum(1).mean()
T_distance(cam_1, cam_2) ==
    FracMean([k \in 1..Len(cam_1) |->
        LET d == VecSub(cam_1[k].T, cam_2[k].T)
        IN  <<Dot(d, d, 3), 1>>])

\* return R_distance + T_distance
calc_camera_distance(cam_1, cam_2) ==
    FracAdd(R_distance(cam_1, cam_2), T_distance(cam_1, cam_2))

DistTranslations == {Zero3, <<2, 0, 0>>, <<0, 3, 4>>}
DistCameras == [R : Rotations, T : DistTranslations]

CdInit ==
    /\ RestIdle /\ ObsDfIdle /\ ObsCpIdle
    /\ InstIdle /\ BaIdle /\ RcIdle /\ CpIdle /\ MiIdle /\ NzIdle /\ DfIdle
    /\ cd_pc = "call"
    /\ \E b \in 1..MaxBatch :
          /\ cd_cam_1 \in [1..b -> DistCameras]
          /\ cd_cam_2 \in [1..b -> DistCameras]
    /\ cd_out = <<>>

\* camera_distance = calc_camera_distance(cameras_relative_composed, cameras_relative)
CdCall ==
    /\ cd_pc = "call"
    /\ cd_out' = calc_camera_distance(cd_cam_1, cd_cam_2)
    /\ cd_pc' = "returned"
    /\ UNCHANGED <<cd_cam_1, cd_cam_2>>
    /\ UNCHANGED othersCd

CdNext ==
    \/ CdCall

SpecDistance == CdInit /\ [][CdNext]_vars

\* the squared distance between the translations of the k-th pair
SquaredL2(k) ==
    LET d == VecSub(cd_cam_1[k].T, cd_cam_2[k].T) IN Dot(d, d, 3)
IsSquare(n) == \E r \in 0..n : r * r = n
Sqrt(n) == CHOOSE r \in 0..n : r * r = n

\* C7: calc_camera_distance returns the sum of a rotation term, the batch mean
\* of 1 minus the cosine of the relative angle between the two rotations, and
\* a translation term that is the l2 distance between the two cameras'
\* translation vectors averaged over the batch.  (Stated for the batches
\* whose l2 distances are whole numbers.)
C7_DistanceIsCosinePlusL2 ==
    (cd_pc = "returned" /\ \A k \in 1..Len(cd_cam_1) : IsSquare(SquaredL2(k))) =>
        FracEq(cd_out,
               FracAdd(FracMean([k \in 1..Len(cd_cam_1) |->
                           LET tr == Trace(MatMul(cd_cam_1[k].R, Transpose(cd_cam_2[k].R)))
                           IN  <<2 - (tr - 1), 2>>]),
                       FracMean([k \in 1..Len(cd_cam_1) |-> <<Sqrt(SquaredL2(k)), 1>>])))

(***************************************************************************)
(* Normalization of the target mesh (deform-mesh notebook and fit-mesh     *)
(* notebook, part_001) and the inverse applied by the save cell.           *)
(* Coordinates are counted in grid steps of 1 / FxOne; a float division or *)
(* multiplication gives the exact result rounded to the grid.              *)
(***************************************************************************)
\* the number of grid steps in 1.0
FxOne == 2
\* the number of vertices of the target mesh
NumVerts == 2
\* the largest coordinate of a loaded vertex, in grid steps
MaxCoord == 5

Coords == {0, MaxCoord \div 2, MaxCoord}
Vertices == [1..3 -> Coords]

\* a / b and a * b on the grid
FxDiv(a, b) == RoundDiv(a * FxOne, b)
FxMul(a, b) == RoundDiv(a * b, FxOne)

\* verts.mean(0)
Mean0(verts) ==
    [c \in 1..3 |-> RoundDiv(SumSeq([n \in 1..Len(verts) |-> verts[n][c]]), Len(verts))]

\* max(verts.abs().max(0)[0]) of the centred vertices
MaxAbs(verts) ==
    MaxSeq([c \in 1..3 |-> MaxSeq([n \in 1..Len(verts) |-> Abs(verts[n][c])])])

Centred(verts, ctr) == [n \in 1..Len(verts) |-> VecSub(verts[n], ctr)]

\* deform-mesh notebook: verts = verts - center; verts = verts / scale
\* fit-mesh notebook: mesh.offset_verts_(-center);
\*                    mesh.scale_verts_((1.0 / float(scale)))
Normalized(notebook, verts, ctr, scl) ==
    [n \in 1..Len(verts) |->
        [c \in 1..3 |->
            IF notebook = "deform"
            THEN FxDiv(verts[n][c] - ctr[c], scl)
            ELSE FxMul(verts[n][c] - ctr[c], FxDiv(FxOne, scl))]]

\* save cell: final_verts = final_verts * scale + center
Denormalized_no_center(verts, scl, ctr) ==
    [n \in 1..Len(verts) |-> [c \in 1..3 |-> FxMul(verts[n][c], scl)]]
Denormalized(verts, scl, ctr) ==
    [n \in 1..Len(verts) |-> [c \in 1..3 |-> FxMul(verts[n][c], scl) + ctr[c]]]

\* the loaded target mesh: its vertices are not all equal
NzInit ==
    /\ RestIdle /\ ObsDfIdle /\ ObsCpIdle
    /\ InstIdle /\ BaIdle /\ RcIdle /\ CdIdle /\ CpIdle /\ MiIdle /\ DfIdle
    /\ nz_pc = "loaded"
    /\ nz_notebook \in {"deform", "fit"}
    /\ nz_orig \in [1..NumVerts -> Vertices]
    /\ \E n \in 1..NumVerts : nz_orig[n] # nz_orig[1]
    /\ nz_verts = nz_orig
    /\ center = Zero3
    /\ scale = 0
    /\ nz_restored = <<>>

\* center = verts.mean(0); scale = max((verts - center).abs().max(0)[0]);
\* the target mesh is centred and scaled
NzNormalize ==
    /\ nz_pc = "loaded"
    /\ center' = Mean0(nz_verts)
    /\ scale' = MaxAbs(Centred(nz_verts, center'))
    /\ nz_verts' = Normalized(nz_notebook, nz_verts, center', scale')
    /\ nz_pc' = "normalized"
    /\ UNCHANGED <<nz_notebook, nz_orig, nz_restored>>
    /\ UNCHANGED othersNz

\* the save cell's "verts * scale + center", applied to the target vertices
NzDenormalize ==
    /\ nz_pc = "normalized"
    /\ nz_restored' = Denormalized(nz_verts, scale, center)
    /\ nz_pc' = "restored"
    /\ UNCHANGED <<nz_notebook, nz_orig, nz_verts, center, scale>>
    /\ UNCHANGED othersNz

NzNext ==
    \/ NzNormalize
    \/ NzDenormalize

SpecNormalize == NzInit /\ [][NzNext]_vars

\* C9: after the target mesh is centred and scaled it fits in a sphere of
\* radius 1 centred at (0,0,0): every normalized vertex has Euclidean norm at
\* most 1.
C9_TargetInUnitSphere ==
    nz_pc \in {"normalized", "restored"} =>
        \A n \in 1..NumVerts : Dot(nz_verts[n], nz_verts[n], 3) <= FxOne * FxOne

RoundTripError2Q2 ==
    (IF nz_notebook = "fit" THEN scale * scale ELSE 0) + scale * FxOne + FxOne * FxOne

Niter == 3

\* src_mesh = ico_sphere(4, device): vertices on the sphere of radius 1
SrcMesh == << <<FxOne, 0, 0>>, <<0, 0, -FxOne>> >>
SrcIds == 1..Len(SrcMesh)

\* the target mesh as loaded, before its normalization
TargetMesh == << <<0, 0, 0>>, <<MaxCoord, MaxCoord \div 2, 0>> >>

\* the gradients backward() may leave on one row of deform_verts
DeformGrads == { Zero3, <<2, -4, 0>> }

\* torch.optim.SGD([deform_verts], lr=1.0, momentum=0.9)
DfLr == <<1, 1>>
DfMomentum == <<9, 10>>

ZeroOffsets == [n \in SrcIds |-> Zero3]

\* src_mesh.offset_verts(deform_verts): a new mesh, src_mesh is not changed
offset_verts(mesh, offsets) == [n \in 1..Len(mesh) |-> VecAdd(mesh[n], offsets[n])]

\* the stage the notebook starts with
FirstStage(notebook) == IF notebook = "deform" THEN "deform" ELSE "silhouette"

\* plot_period = 250
plot_period == 250

\* if i % plot_period == 0: plot new_src_mesh
PlotDue_last(i) == i % plot_period = 0 \/ i = Niter - 1
PlotDue(i) == i % plot_period = 0

\* what the call src_mesh.offset_verts(deform_verts) leaves in its receiver:
\* offset_verts works on a clone, offset_verts_ would work in place
ReceiverAfter_inplace(mesh, offsets) == offset_verts(mesh, offsets)
ReceiverAfter(mesh, offsets) == mesh

\* the loss terms of a stage: the four lists of the deform notebook, the
\* keys of the dictionary losses in the two stages of the fit notebook
LossKeys(stage) ==
    IF stage = "deform" THEN {"chamfer", "edge", "normal", "laplacian"}
    ELSE IF stage = "silhouette" THEN {"silhouette", "edge", "normal", "laplacian"}
    ELSE {"rgb", "silhouette", "edge", "normal", "laplacian"}

\* the weights of the terms, in units of 1/100: w_chamfer ... w_laplacian of
\* the deform notebook, losses[k]["weight"] of the fit notebook
Weights(stage) ==
    IF stage = "deform"
    THEN [k \in LossKeys(stage) |->
            IF k = "normal" THEN 1 ELSE IF k = "laplacian" THEN 10 ELSE 100]
    ELSE [k \in LossKeys(stage) |-> IF k = "normal" THEN 1 ELSE 100]

\* the terms the view loop of a stage adds to with +=
DataKeys(stage) ==
    IF stage = "deform" THEN {}
    ELSE IF stage = "silhouette" THEN {"silhouette"}
    ELSE {"silhouette", "rgb"}

\* the lists of recorded values as the settings cell of a stage binds them
FreshLosses_kept(stage) ==
    [k \in LossKeys(stage) |-> IF k \in DOMAIN losses THEN losses[k] ELSE <<>>]
FreshLosses(stage) == [k \in LossKeys(stage) |-> <<>>]

\* a loss value is identified by its term and by the stage and the iteration
\* whose new_src_mesh it was computed from; "zero" is torch.tensor(0.0)
LossOf(k, stage, i) == <<k, stage, i>>

\* d[k] = v on a dictionary
DictSet(d, k, v) == [x \in (DOMAIN d) \cup {k} |-> IF x = k THEN v ELSE d[x]]

\* update_mesh_shape_prior_losses(mesh, loss) for the mesh of iteration i
update_mesh_shape_prior_losses(d, stage, i) ==
    DictSet(DictSet(DictSet(d, "edge", LossOf("edge", stage, i)),
                    "normal", LossOf("normal", stage, i)),
            "laplacian", LossOf("laplacian", stage, i))

\* loss = {k: torch.tensor(0.0, device=device) for k in losses}
ZeroLossDict(stage, i) == [k \in DOMAIN losses |-> LossOf("zero", stage, i)]

\* the view loop's loss[k] += ... for the data terms of the stage
AddViews(d, stage, i) ==
    [k \in DOMAIN d |-> IF k \in DataKeys(stage) THEN LossOf(k, stage, i) ELSE d[k]]

\* the terms of iteration i: the four local values of the deform loop, the
\* dictionary loss of the fit loops
ComputeLosses(stage, i) ==
    IF stage = "deform"
    THEN [k \in LossKeys(stage) |-> LossOf(k, stage, i)]
    ELSE AddViews(update_mesh_shape_prior_losses(ZeroLossDict(stage, i), stage, i),
                  stage, i)

\* the order in which a dictionary of loss terms is iterated
KeyOrder == <<"rgb", "silhouette", "chamfer", "edge", "normal", "laplacian">>
Items_dataOnly(d) ==
    SelectSeq(KeyOrder, LAMBDA k : k \in DOMAIN d /\ k \in {"rgb", "silhouette"})
Items(d) == SelectSeq(KeyOrder, LAMBDA k : k \in DOMAIN d)

\* for k, l in loss.items(): sum_loss += l * losses[k]["weight"]
WeightedTerms(d, w) ==
    [n \in 1..Len(Items(d)) |->
        [key |-> Items(d)[n], weight |-> w[Items(d)[n]], value |-> d[Items(d)[n]]]]

\* ... losses[k]["values"].append(float(l.detach().cpu()))
RecordValues_dataOnly(ls, d) ==
    [k \in DOMAIN ls |->
        IF k \in DOMAIN d /\ k \in {"rgb", "silhouette", "chamfer"}
        THEN Append(ls[k], d[k]) ELSE ls[k]]
RecordValues(ls, d) ==
    [k \in DOMAIN ls |-> IF k \in DOMAIN d THEN Append(ls[k], d[k]) ELSE ls[k]]

\* the notebook has normalized its target and set up deform_verts and the
\* optimizer; new_src_mesh is not bound yet
DfInit ==
    /\ RestIdle /\ ObsCpIdle
    /\ InstIdle /\ BaIdle /\ RcIdle /\ CdIdle /\ CpIdle /\ MiIdle
    /\ df_notebook \in {"deform", "fit"}
    /\ nz_pc = "normalized"
    /\ nz_notebook = df_notebook
    /\ nz_orig = TargetMesh
    /\ center = Mean0(TargetMesh)
    /\ scale = MaxAbs(Centred(TargetMesh, center))
    /\ nz_verts = Normalized(nz_notebook, TargetMesh, center, scale)
    /\ nz_restored = <<>>
    /\ df_pc = "zero_grad"
    /\ df_stage = FirstStage(df_notebook)
    /\ df_i = 0
    /\ deform_verts = ZeroOffsets
    /\ df_grad = ZeroOffsets
    /\ df_buf = ZeroOffsets
    /\ new_src_mesh = <<>>
    /\ final_verts = <<>>
    /\ df_steps = 0
    /\ df_plots = <<>>
    /\ losses = [k \in LossKeys(df_stage) |-> <<>>]
    /\ loss_dict = <<>>
    /\ sum_terms = <<>>
    /\ src_mesh = SrcMesh
    /\ targets = nz_verts

\* for i in loop: optimizer.zero_grad()
DfZeroGrad ==
    /\ df_pc = "zero_grad"
    /\ df_i < Niter
    /\ df_grad' = ZeroOffsets
    /\ df_pc' = "offset"
    /\ UNCHANGED <<df_notebook, df_stage, df_i, deform_verts, df_buf, new_src_mesh,
                   final_verts, df_steps>>
    /\ ops' = Append(ops, "zero_grad")
    /\ UNCHANGED loss_grad
    /\ UNCHANGED obsDfVars
    /\ UNCHANGED othersDf

\* new_src_mesh = src_mesh.offset_verts(deform_verts)
DfOffset ==
    /\ df_pc = "offset"
    /\ new_src_mesh' = offset_verts(src_mesh, deform_verts)
    /\ df_pc' = "backward"
    /\ UNCHANGED <<df_notebook, df_stage, df_i, deform_verts, df_grad, df_buf,
                   final_verts, df_steps>>
    /\ ops' = Append(ops, "forward")
    /\ UNCHANGED loss_grad
    /\ src_mesh' = ReceiverAfter(src_mesh, deform_verts)
    /\ UNCHANGED <<df_plots, losses, loss_dict, sum_terms, targets>>
    /\ UNCHANGED othersDf

\* the losses of new_src_mesh, their weighted sum, the recorded values, the
\* plot of new_src_mesh when it is due, and loss.backward(); a term that is
\* not a key of losses ends the cell with KeyError
DfBackward ==
    /\ df_pc = "backward"
    /\ \E g \in [SrcIds -> DeformGrads] :
          /\ df_grad' = [n \in SrcIds |-> VecAdd(df_grad[n], g[n])]
          /\ loss_grad' = g
    /\ LET computed == ComputeLosses(df_stage, df_i)
           known == /\ DataKeys(df_stage) \subseteq DOMAIN losses
                    /\ DOMAIN computed \subseteq DOMAIN losses
       IN  /\ loss_dict' = computed
           /\ IF known
              THEN /\ sum_terms' = WeightedTerms(computed, Weights(df_stage))
                   /\ losses' = RecordValues(losses, computed)
                   /\ df_pc' = "step"
              ELSE /\ UNCHANGED <<sum_terms, losses>>
                   /\ df_pc' = "KeyError"
    /\ df_plots' = IF PlotDue(df_i)
                   THEN Append(df_plots, [stage |-> df_stage, i |-> df_i,
                                          mesh |-> new_src_mesh])
                   ELSE df_plots
    /\ UNCHANGED <<src_mesh, targets>>
    /\ UNCHANGED <<df_notebook, df_stage, df_i, deform_verts, df_buf, new_src_mesh,
                   final_verts, df_steps>>
    /\ ops' = Append(ops, "backward")
    /\ UNCHANGED othersDf

\* optimizer.step(), the last statement of the loop body
DfStep ==
    /\ df_pc = "step"
    /\ df_buf' = SGDBuf(df_buf, df_grad, DfMomentum)
    /\ deform_verts' = SGDParam(deform_verts, df_buf', DfLr)
    /\ df_steps' = df_steps + 1
    /\ df_i' = df_i + 1
    /\ df_pc' = "zero_grad"
    /\ UNCHANGED <<df_notebook, df_stage, df_grad, new_src_mesh, final_verts>>
    /\ ops' = Append(ops, "step")
    /\ UNCHANGED loss_grad
    /\ UNCHANGED obsDfVars
    /\ UNCHANGED othersDf

\* the loop of the silhouette stage has ended: the settings cell of the
\* textured stage binds a new deform_verts and a new optimizer
DfNextStage ==
    /\ df_pc = "zero_grad"
    /\ df_i = Niter
    /\ df_stage = "silhouette"
    /\ df_stage' = "textured"
    /\ df_i' = 0
    /\ deform_verts' = ZeroOffsets
    /\ df_grad' = ZeroOffsets
    /\ df_buf' = ZeroOffsets
    /\ df_steps' = 0
    /\ UNCHANGED <<df_pc, df_notebook, new_src_mesh, final_verts>>
    /\ ops' = <<>>
    /\ UNCHANGED loss_grad
    /\ losses' = FreshLosses("textured")
    /\ UNCHANGED <<df_plots, loss_dict, sum_terms, src_mesh, targets>>
    /\ UNCHANGED othersDf

\* the last loop has ended; the save cell:
\* final_verts, final_faces = new_src_mesh.get_mesh_verts_faces(0);
\* final_verts = final_verts * scale + center; save_obj(final_obj, ...)
DfSave ==
    /\ df_pc = "zero_grad"
    /\ df_i = Niter
    /\ df_stage \in {"deform", "textured"}
    /\ final_verts' = Denormalized(new_src_mesh, scale, center)
    /\ df_pc' = "saved"
    /\ UNCHANGED <<df_notebook, df_stage, df_i, deform_verts, df_grad, df_buf,
                   new_src_mesh, df_steps>>
    /\ UNCHANGED lpVars
    /\ UNCHANGED obsDfVars
    /\ UNCHANGED othersDf

DfNext ==
    \/ DfZeroGrad
    \/ DfOffset
    \/ DfBackward
    \/ DfStep
    \/ DfNextStage
    \/ DfSave

SpecDeform == DfInit /\ [][DfNext]_vars

\* C5: the mesh written to final_model.obj is the final predicted mesh: the
\* source sphere offset by the value deform_verts has when the optimization
\* loop has finished, mapped back with scale and center.
C5_SavedMeshIsFinalPrediction ==
    df_pc = "saved" =>
        final_verts = Denormalized(offset_verts(SrcMesh, deform_verts), scale, center)


(***************************************************************************)
(* The views of one iteration of the fit-mesh loops (part_001): the loop   *)
(* over np.random.permutation(num_views).tolist()[:num_views_per_iteration]*)
(* that accumulates loss["silhouette"].  Losses are fractions <<n, d>>.    *)
(***************************************************************************)
\* num_views, the number of target views (20 in the notebook)
num_views == 3

\* num_views_per_iteration = 2
num_views_per_iteration == 2

ViewIds == 0..(num_views - 1)

\* np.random.permutation(n).tolist(): every ordering of 0..n-1
permutation(n) ==
    { p \in [1..n -> 0..(n - 1)] : \A a, b \in 1..n : p[a] = p[b] => a = b }

\* list[:k]
Slice_all(list, k) == list
Slice(list, k) == IF Len(list) <= k THEN list ELSE SubSeq(list, 1, k)

\* the values ((predicted_silhouette - target_silhouette[j]) ** 2).mean()
\* may take for one view
ViewLossValues == {1, 3}

CoreIdle ==
    /\ InstIdle /\ BaIdle /\ RcIdle /\ CdIdle /\ CpIdle /\ MiIdle /\ NzIdle /\ DfIdle

VwInit ==
    /\ CoreIdle /\ ChIdle /\ RpIdle /\ NbIdle /\ LpIdle /\ ObsDfIdle /\ ObsCpIdle
    /\ vw_pc = "sample"
    /\ vw_i = 0
    /\ vw_views = <<>>
    /\ vw_k = 0
    /\ view_loss = <<>>
    /\ vw_loss = <<0, 1>>
    /\ vw_used = <<>>

\* loss = {k: torch.tensor(0.0) for k in losses}; the list the for loop
\* iterates is evaluated once; the rendering of the new mesh fixes the
\* per-view loss of every view
VwSample ==
    /\ vw_pc = "sample"
    /\ vw_i < Niter
    /\ \E p \in permutation(num_views) :
          vw_views' = Slice(p, num_views_per_iteration)
    /\ \E f \in [ViewIds -> ViewLossValues] : view_loss' = f
    /\ vw_k' = 1
    /\ vw_loss' = <<0, 1>>
    /\ vw_used' = <<>>
    /\ vw_pc' = "view"
    /\ UNCHANGED vw_i
    /\ UNCHANGED othersVw

\* one pass of the body of "for j in ...":
\* loss["silhouette"] += loss_silhouette / num_views_per_iteration
VwView ==
    /\ vw_pc = "view"
    /\ vw_k <= Len(vw_views)
    /\ LET j == vw_views[vw_k]
       IN  /\ vw_loss' = FracAdd(vw_loss, <<view_loss[j], num_views_per_iteration>>)
           /\ vw_used' = Append(vw_used, j)
    /\ vw_k' = vw_k + 1
    /\ UNCHANGED <<vw_pc, vw_i, vw_views, view_loss>>
    /\ UNCHANGED othersVw

\* the for loop is exhausted: weighted sum, backward and step end the
\* iteration
VwEndIteration ==
    /\ vw_pc = "view"
    /\ vw_k > Len(vw_views)
    /\ vw_pc' = "sample"
    /\ vw_i' = vw_i + 1
    /\ UNCHANGED <<vw_views, vw_k, view_loss, vw_loss, vw_used>>
    /\ UNCHANGED othersVw

VwNext ==
    \/ VwSample
    \/ VwView
    \/ VwEndIteration

SpecViews == VwInit /\ [][VwNext]_vars

\* the views have all been visited in the current iteration
ViewsDone == vw_pc = "view" /\ vw_k > Len(vw_views)

\* C11: in each iteration the silhouette loss is the average over exactly
\* num_views_per_iteration views, pairwise distinct, each in 0..num_views-1,
\* and each contributes its per-view loss with weight
\* 1 / num_views_per_iteration.
C11_LossAveragesDistinctViews ==
    ViewsDone =>
        /\ Len(vw_used) = num_views_per_iteration
        /\ \A a, b \in 1..Len(vw_used) : vw_used[a] = vw_used[b] => a = b
        /\ \A a \in 1..Len(vw_used) : vw_used[a] \in ViewIds
        /\ FracEq(vw_loss,
                  <<SumSeq([a \in 1..Len(vw_used) |-> view_loss[vw_used[a]]]),
                    num_views_per_iteration>>)

C11_Witness ==
    /\ ViewsDone
    /\ vw_i > 0
    /\ vw_used = <<2, 0>>
    /\ view_loss[2] # view_loss[0]


(***************************************************************************)
(* The deform-mesh loop with the chamfer loss computed: the clouds         *)
(* sample_points_from_meshes returns are the vertices of the two meshes,   *)
(* and the meshes of the model have no edges or faces, so the edge, normal *)
(* and laplacian terms of the loss are absent.  chamfer_distance is the    *)
(* library's (mean over the points of each cloud of the squared distance   *)
(* to the nearest point of the other cloud, summed over both directions).  *)
(***************************************************************************)
SqDist(u, v) == LET d == VecSub(u, v) IN Dot(d, d, 3)

\* the index of the point of cloud nearest to x (the lowest on a tie)
Nearest(x, cloud) ==
    CHOOSE m \in 1..Len(cloud) :
        \A m2 \in 1..Len(cloud) :
            \/ SqDist(x, cloud[m]) < SqDist(x, cloud[m2])
            \/ SqDist(x, cloud[m]) = SqDist(x, cloud[m2]) /\ m <= m2

\* the sum over the points of a of the squared distance to the nearest
\* point of b
ChamferOneWay(a, b) ==
    SumSeq([n \in 1..Len(a) |-> SqDist(a[n], b[Nearest(a[n], b)])])

\* chamfer_distance(x, y): cham_x.mean() + cham_y.mean(), a fraction
chamfer_distance(x, y) ==
    <<Len(y) * ChamferOneWay(x, y) + Len(x) * ChamferOneWay(y, x), Len(x) * Len(y)>>

\* the gradient of chamfer_distance(trg, src) at point n of src
ChamferGrad(src, trg, n) ==
    LET own == VecScale(VecSub(src[n], trg[Nearest(src[n], trg)]), 2 * Len(trg))
        back(m) == IF Nearest(trg[m], src) = n
                   THEN VecScale(VecSub(src[n], trg[m]), 2 * Len(src))
                   ELSE Zero3
        num == [c \in 1..3 |-> own[c] + SumSeq([m \in 1..Len(trg) |-> back(m)[c]])]
    IN  [c \in 1..3 |-> RoundDiv(num[c], Len(src) * Len(trg))]

FracLeq(a, b) == a[1] * b[2] <= b[1] * a[2]

\* the deform notebook after its normalization cell, for any target
ChInit ==
    /\ InstIdle /\ BaIdle /\ RcIdle /\ CdIdle /\ CpIdle /\ MiIdle /\ VwIdle /\ RpIdle /\ NbIdle
    /\ LpIdle /\ ObsCpIdle
    /\ df_notebook = "deform"
    /\ nz_pc = "normalized"
    /\ nz_notebook = df_notebook
    /\ nz_orig \in [1..NumVerts -> Vertices]
    /\ \E a, b \in 1..NumVerts : nz_orig[a] # nz_orig[b]
    /\ center = Mean0(nz_orig)
    /\ scale = MaxAbs(Centred(nz_orig, center))
    /\ nz_verts = Normalized(nz_notebook, nz_orig, center, scale)
    /\ nz_restored = <<>>
    /\ df_pc = "zero_grad"
    /\ df_stage = FirstStage(df_notebook)
    /\ df_i = 0
    /\ deform_verts = ZeroOffsets
    /\ df_grad = ZeroOffsets
    /\ df_buf = ZeroOffsets
    /\ new_src_mesh = <<>>
    /\ final_verts = <<>>
    /\ df_steps = 0
    /\ df_plots = <<>>
    /\ losses = [k \in LossKeys(df_stage) |-> <<>>]
    /\ loss_dict = <<>>
    /\ sum_terms = <<>>
    /\ src_mesh = SrcMesh
    /\ targets = nz_verts
    /\ chamfer_losses = <<>>

\* loss_chamfer, _ = chamfer_distance(sample_trg, sample_src);
\* chamfer_losses.append(...); loss.backward()
ChBackward ==
    /\ df_pc = "backward"
    /\ chamfer_losses' = Append(chamfer_losses, chamfer_distance(nz_verts, new_src_mesh))
    /\ df_grad' = [n \in SrcIds |->
                     VecAdd(df_grad[n], ChamferGrad(new_src_mesh, nz_verts, n))]
    /\ df_pc' = "step"
    /\ UNCHANGED <<df_notebook, df_stage, df_i, deform_verts, df_buf, new_src_mesh,
                   final_verts, df_steps>>
    /\ ops' = Append(ops, "backward")
    /\ loss_grad' = [n \in SrcIds |-> ChamferGrad(new_src_mesh, nz_verts, n)]
    /\ UNCHANGED <<coreVarsButDf, vwVars, rpVars, nbVars, obsDfVars, obsCpVars>>

ChNext ==
    \/ DfZeroGrad
    \/ DfOffset
    \/ ChBackward
    \/ DfStep
    \/ DfSave

SpecChamfer == ChInit /\ [][ChNext]_vars

GenModulus == 16

GenStates == 0..(GenModulus - 1)
Kernels == {1, 2}

\* torch.manual_seed(seed): the generator state is a function of the seed
manual_seed_ignored(gen, seed) == gen
manual_seed(gen, seed) == seed % GenModulus

\* the generator after one draw, and the value of the draw
NextGen(gen) == (5 * gen + 3) % GenModulus
Normal(gen) == gen - GenModulus \div 2

\* the generator after k draws
RECURSIVE GenAfter(_, _)
GenAfter(gen, k) == IF k = 0 THEN gen ELSE GenAfter(NextGen(gen), k - 1)

\* torch.randn(N, 3): 3 N draws, row after row
randn(gen) ==
    [n \in CameraIds |-> [c \in 1..3 |-> Normal(GenAfter(gen, 3 * n + c - 1))]]

\* the first row of a tensor set to zero: tensor[0, :] = 0.
ZeroFirstRow(tensor) == [n \in CameraIds |-> IF n = 0 THEN Zero3 ELSE tensor[n]]

\* the contents of the input file, reduced to one tensor of the shape of the
\* parameters that the loss compares the cameras with
InputFiles ==
    { [n \in CameraIds |-> <<4, 0, -4>>], [n \in CameraIds |-> <<0, 8, 2>>] }

\* the gradient backward() leaves on a parameter: a function of the
\* parameter and of the input only (the loss has no random term)
LossGrad(p, input) ==
    MaskedGrad([n \in CameraIds |-> VecScale(VecSub(Masked(p)[n], input[n]), 2)])

\* two fresh kernels: the generator of each is in any state
RpInit ==
    /\ CoreIdle /\ VwIdle /\ ChIdle /\ NbIdle /\ LpIdle /\ ObsDfIdle /\ ObsCpIdle
    /\ rp_pc = "imports"
    /\ rp_input \in InputFiles
    /\ rp_it = 0
    /\ kernels \in [Kernels -> [fresh : GenStates, gen : GenStates, log_R : {<<>>},
                                T : {<<>>}, buf_R : {<<>>}, buf_T : {<<>>},
                                trace : {<<>>}]]
    /\ \A k \in Kernels : kernels[k].gen = kernels[k].fresh

\* the imports cell: torch.manual_seed(42)
RpSeed ==
    /\ rp_pc = "imports"
    /\ kernels' = [k \in Kernels |->
                     [kernels[k] EXCEPT !.gen = manual_seed(kernels[k].gen, 42)]]
    /\ rp_pc' = "initialize"
    /\ UNCHANGED <<rp_input, rp_it>>
    /\ UNCHANGED othersRp

\* log_R_absolute_init = torch.randn(N, 3); T_absolute_init = torch.randn(N, 3);
\* row 0 of both set to zero; the optimizer is created
RpInitialize ==
    /\ rp_pc = "initialize"
    /\ kernels' = [k \in Kernels |->
          LET g == kernels[k].gen
              g2 == GenAfter(g, 3 * NumCameras)
              r == ZeroFirstRow(randn(g))
              t == ZeroFirstRow(randn(g2))
          IN  [kernels[k] EXCEPT !.gen = GenAfter(g2, 3 * NumCameras),
                                 !.log_R = r, !.T = t,
                                 !.buf_R = ZeroTensor, !.buf_T = ZeroTensor,
                                 !.trace = << <<r, t>> >>]]
    /\ rp_pc' = "loop"
    /\ UNCHANGED <<rp_input, rp_it>>
    /\ UNCHANGED othersRp

\* one iteration of the loop: zero_grad, forward, backward, step
RpIterate ==
    /\ rp_pc = "loop"
    /\ rp_it < n_iter
    /\ kernels' = [k \in Kernels |->
          LET bR == SGDBuf(kernels[k].buf_R, LossGrad(kernels[k].log_R, rp_input), BaMomentum)
              bT == SGDBuf(kernels[k].buf_T, LossGrad(kernels[k].T, rp_input), BaMomentum)
              r == SGDParam(kernels[k].log_R, bR, BaLr)
              t == SGDParam(kernels[k].T, bT, BaLr)
          IN  [kernels[k] EXCEPT !.buf_R = bR, !.buf_T = bT, !.log_R = r, !.T = t,
                                 !.trace = Append(@, <<r, t>>)]]
    /\ rp_it' = rp_it + 1
    /\ UNCHANGED <<rp_pc, rp_input>>
    /\ UNCHANGED othersRp

\* print('Optimization finished.')
RpFinish ==
    /\ rp_pc = "loop"
    /\ rp_it = n_iter
    /\ rp_pc' = "finished"
    /\ UNCHANGED <<rp_input, rp_it, kernels>>
    /\ UNCHANGED othersRp

RpNext ==
    \/ RpSeed
    \/ RpInitialize
    \/ RpIterate
    \/ RpFinish

SpecReproduce == RpInit /\ [][RpNext]_vars

Cell(needs, binds) == { [needs |-> needs, binds |-> binds] }

\* the install cell: pytorch3d is bound when the import succeeds,
\* version_str on the route of the wheel
InstallCell ==
    { [needs |-> {}, binds |-> {"os", "sys", "torch", "need_pytorch3d", "pytorch3d"}],
      [needs |-> {}, binds |-> {"os", "sys", "torch", "need_pytorch3d", "version_str"}],
      [needs |-> {}, binds |-> {"os", "sys", "torch", "need_pytorch3d"}] }

\* the code cells of bundle_adjustment, in document order
Cells_part_000 == <<
    Cell({}, {}),
    InstallCell,
    Cell({}, {"torch", "so3_exp_map", "so3_relative_angle",
         "SfMPerspectiveCameras", "sys", "os", "device"}),
    Cell({}, {"plot_camera_scene"}),
    Cell({}, {}),
    Cell({"torch", "SfMPerspectiveCameras", "device"}, {"camera_graph_file",
         "R_absolute_gt", "T_absolute_gt", "R_relative", "T_relative",
         "relative_edges", "cameras_relative", "cameras_absolute_gt", "N"}),
    Cell({}, {"calc_camera_distance", "get_relative_camera"}),
    Cell({"torch", "N", "device", "so3_exp_map", "SfMPerspectiveCameras",
         "get_relative_camera", "relative_edges", "calc_camera_distance",
         "so3_relative_angle", "cameras_relative", "plot_camera_scene",
         "cameras_absolute_gt"}, {"log_R_absolute_init", "T_absolute_init",
         "log_R_absolute", "T_absolute", "camera_mask", "optimizer", "n_iter",
         "it", "R_absolute", "cameras_absolute", "cameras_relative_composed",
         "camera_distance", "status"})
    >>

\* the code cells of fit_textured_mesh, in document order
Cells_part_001 == <<
    Cell({}, {}),
    InstallCell,
    Cell({}, {"os", "torch", "plt", "ico_sphere", "np", "tqdm",
         "load_objs_as_meshes", "save_obj", "chamfer_distance",
         "mesh_edge_loss", "mesh_laplacian_smoothing",
         "mesh_normal_consistency", "Meshes", "look_at_view_transform",
         "OpenGLPerspectiveCameras", "PointLights", "DirectionalLights",
         "Materials", "RasterizationSettings", "MeshRenderer",
         "MeshRasterizer", "SoftPhongShader", "SoftSilhouetteShader",
         "TexturesVertex", "sys"}),
    Cell({}, {"image_grid"}),
    Cell({}, {}),
    Cell({}, {}),
    Cell({"torch", "os", "load_objs_as_meshes"}, {"device", "DATA_DIR",
         "obj_filename", "mesh", "verts", "N", "center", "scale"}),
    Cell({"torch", "PointLights", "device", "look_at_view_transform",
         "OpenGLPerspectiveCameras", "RasterizationSettings", "MeshRenderer",
         "MeshRasterizer", "SoftPhongShader", "mesh"}, {"num_views", "elev",
         "azim", "lights", "R", "T", "cameras", "camera", "raster_settings",
         "renderer", "meshes", "target_images", "target_rgb",
         "target_cameras"}),
    Cell({"image_grid", "target_images", "plt"}, {}),
    Cell({"RasterizationSettings", "np", "MeshRenderer", "MeshRasterizer",
         "camera", "SoftSilhouetteShader", "meshes", "cameras", "lights",
         "num_views", "image_grid", "plt"}, {"sigma",
         "raster_settings_silhouette", "renderer_silhouette",
         "silhouette_images", "target_silhouette"}),
    Cell({"renderer_silhouette", "target_rgb"}, {"visualize_prediction",
         "plot_losses"}),
    Cell({"ico_sphere", "device"}, {"src_mesh"}),
    Cell({"RasterizationSettings", "np", "MeshRenderer", "MeshRasterizer",
         "camera", "SoftSilhouetteShader"}, {"sigma", "raster_settings_soft",
         "renderer_silhouette"}),
    Cell({"src_mesh", "torch", "device"}, {"num_views_per_iteration", "Niter",
         "plot_period", "losses", "update_mesh_shape_prior_losses",
         "verts_shape", "deform_verts", "optimizer"}),
    Cell({"tqdm", "Niter", "optimizer", "src_mesh", "deform_verts", "losses",
         "torch", "device", "update_mesh_shape_prior_losses",
         "mesh_edge_loss", "mesh_normal_consistency",
         "mesh_laplacian_smoothing", "np", "num_views",
         "num_views_per_iteration", "renderer_silhouette", "target_cameras",
         "lights", "target_silhouette", "plot_period", "visualize_prediction",
         "plt"}, {"loop", "i", "new_src_mesh", "loss", "j",
         "images_predicted", "predicted_silhouette", "loss_silhouette",
         "sum_loss", "k", "l"}),
    Cell({"visualize_prediction", "torch", "plt", "new_src_mesh",
         "target_silhouette", "plot_losses", "losses"}, {}),
    Cell({"RasterizationSettings", "np", "MeshRenderer", "MeshRasterizer",
         "camera", "SoftPhongShader", "device", "lights"}, {"sigma",
         "raster_settings_soft", "renderer_textured"}),
    Cell({"src_mesh", "torch", "device"}, {"num_views_per_iteration", "Niter",
         "plot_period", "losses", "verts_shape", "deform_verts",
         "sphere_verts_rgb", "optimizer"}),
    Cell({"tqdm", "Niter", "optimizer", "src_mesh", "deform_verts",
         "TexturesVertex", "sphere_verts_rgb", "losses", "torch", "device",
         "update_mesh_shape_prior_losses", "mesh_edge_loss",
         "mesh_normal_consistency", "mesh_laplacian_smoothing", "np",
         "num_views", "num_views_per_iteration", "renderer_textured",
         "target_cameras", "lights", "target_silhouette", "target_rgb",
         "plot_period", "visualize_prediction", "plt"}, {"loop", "i",
         "new_src_mesh", "loss", "j", "images_predicted",
         "predicted_silhouette", "loss_silhouette", "predicted_rgb",
         "loss_rgb", "sum_loss", "k", "l"}),
    Cell({"visualize_prediction", "torch", "plt", "new_src_mesh",
         "renderer_textured", "plot_losses", "losses"}, {}),
    Cell({"new_src_mesh", "scale", "center", "os", "save_obj"},
         {"final_verts", "final_faces", "final_obj"})
    >>

\* the code cells of render_textured_meshes, in document order
Cells_part_002 == <<
    Cell({}, {}),
    InstallCell,
    Cell({}, {"os", "torch", "plt", "load_objs_as_meshes", "load_obj",
         "Meshes", "AxisArgs", "plot_batch_individually", "plot_scene",
         "texturesuv_image_matplotlib", "look_at_view_transform",
         "FoVPerspectiveCameras", "PointLights", "DirectionalLights",
         "Materials", "RasterizationSettings", "MeshRenderer",
         "MeshRasterizer", "SoftPhongShader", "TexturesUV", "TexturesVertex",
         "sys"}),
    Cell({}, {"image_grid"}),
    Cell({}, {}),
    Cell({}, {}),
    Cell({"torch", "os", "load_objs_as_meshes"}, {"device", "DATA_DIR",
         "obj_filename", "mesh"}),
    Cell({"plt", "mesh"}, {"texture_image"}),
    Cell({"plt", "texturesuv_image_matplotlib", "mesh"}, {}),
    Cell({"look_at_view_transform", "FoVPerspectiveCameras", "device",
         "RasterizationSettings", "PointLights", "MeshRenderer",
         "MeshRasterizer", "SoftPhongShader"}, {"R", "T", "cameras",
         "raster_settings", "lights", "renderer"}),
    Cell({"renderer", "mesh", "plt"}, {"images"}),
    Cell({"torch", "device", "lights", "renderer", "mesh"}, {"images"}),
    Cell({"plt", "images"}, {}),
    Cell({"look_at_view_transform", "FoVPerspectiveCameras", "device",
         "torch", "lights", "Materials", "renderer", "mesh"}, {"R", "T",
         "cameras", "materials", "images"}),
    Cell({"plt", "images"}, {}),
    Cell({"mesh", "torch", "look_at_view_transform", "FoVPerspectiveCameras",
         "device", "lights"}, {"batch_size", "meshes", "elev", "azim", "R",
         "T", "cameras"}),
    Cell({"renderer", "meshes", "cameras", "lights"}, {"images"}),
    Cell({"image_grid", "images"}, {}),
    Cell({"load_obj", "obj_filename", "torch", "TexturesVertex", "device",
         "Meshes", "plot_scene"}, {"verts", "faces_idx", "_", "faces",
         "verts_rgb", "textures", "mesh", "fig"}),
    Cell({"Meshes", "verts", "device", "faces", "plot_scene"}, {"mesh",
         "fig"}),
    Cell({"Meshes", "verts", "device", "faces", "plot_scene"}, {"mesh_batch",
         "fig"}),
    Cell({"plot_scene", "mesh_batch"}, {"fig"}),
    Cell({"plot_scene", "mesh_batch"}, {"fig"}),
    Cell({"mesh_batch", "plot_batch_individually"}, {"mesh_4", "fig"}),
    Cell({"plot_scene", "mesh_batch", "AxisArgs"}, {"fig2"}),
    Cell({"plot_batch_individually", "mesh_4", "AxisArgs"}, {"fig3"})
    >>

\* the code cells of camera_position_optimization, in document order
Cells_camera_position == <<
    Cell({}, {}),
    InstallCell,
    Cell({}, {"os", "torch", "np", "tqdm", "imageio", "nn", "F", "plt",
         "img_as_ubyte", "load_obj", "Meshes", "Rotate", "Translate",
         "FoVPerspectiveCameras", "look_at_view_transform",
         "look_at_rotation", "RasterizationSettings", "MeshRenderer",
         "MeshRasterizer", "BlendParams", "SoftSilhouetteShader",
         "HardPhongShader", "PointLights", "TexturesVertex"}),
    Cell({}, {}),
    Cell({"torch", "load_obj", "TexturesVertex", "Meshes"}, {"device",
         "verts", "faces_idx", "_", "faces", "verts_rgb", "textures",
         "teapot_mesh"}),
    Cell({"FoVPerspectiveCameras", "device", "BlendParams",
         "RasterizationSettings", "np", "MeshRenderer", "MeshRasterizer",
         "SoftSilhouetteShader", "PointLights", "HardPhongShader"},
         {"cameras", "blend_params", "raster_settings", "silhouette_renderer",
         "lights", "phong_renderer"}),
    Cell({"look_at_view_transform", "device", "silhouette_renderer",
         "teapot_mesh", "phong_renderer", "plt"}, {"distance", "elevation",
         "azimuth", "R", "T", "silhouette", "image_ref"}),
    Cell({"nn"}, {"Model"}),
    Cell({"imageio", "Model", "torch", "np", "nn", "look_at_rotation",
         "teapot_mesh", "silhouette_renderer", "image_ref", "device"},
         {"filename_output", "writer", "model", "optimizer"}),
    Cell({"plt", "model"}, {"_", "image_init"}),
    Cell({"tqdm", "optimizer", "model", "look_at_rotation", "torch",
         "phong_renderer", "img_as_ubyte", "writer", "plt"}, {"loop", "i",
         "loss", "_", "R", "T", "image"})
    >>

\* the code cells of deform_source_mesh_to_target_mesh, in document order
Cells_deform == <<
    Cell({}, {}),
    InstallCell,
    Cell({}, {"os", "torch", "load_obj", "save_obj", "Meshes", "ico_sphere",
         "sample_points_from_meshes", "chamfer_distance", "mesh_edge_loss",
         "mesh_laplacian_smoothing", "mesh_normal_consistency", "np", "tqdm",
         "Axes3D", "plt", "mpl", "device"}),
    Cell({}, {}),
    Cell({"os"}, {"trg_obj"}),
    Cell({"load_obj", "trg_obj", "device", "Meshes"}, {"verts", "faces",
         "aux", "faces_idx", "center", "scale", "trg_mesh"}),
    Cell({"ico_sphere", "device"}, {"src_mesh"}),
    Cell({}, {"plot_pointcloud"}),
    Cell({"plot_pointcloud", "sample_points_from_meshes", "plt", "Axes3D",
         "trg_mesh", "src_mesh"}, {}),
    Cell({"torch", "src_mesh", "device"}, {"deform_verts"}),
    Cell({"torch", "deform_verts"}, {"optimizer"}),
    Cell({"tqdm", "optimizer", "src_mesh", "deform_verts",
         "sample_points_from_meshes", "trg_mesh", "chamfer_distance",
         "mesh_edge_loss", "mesh_normal_consistency",
         "mesh_laplacian_smoothing", "plot_pointcloud", "plt", "Axes3D"},
         {"Niter", "w_chamfer", "w_edge", "w_normal", "w_laplacian",
         "plot_period", "loop", "chamfer_losses", "laplacian_losses",
         "edge_losses", "normal_losses", "i", "new_src_mesh", "sample_trg",
         "sample_src", "loss_chamfer", "_", "loss_edge", "loss_normal",
         "loss_laplacian", "loss"}),
    Cell({"plt", "chamfer_losses", "edge_losses", "normal_losses",
         "laplacian_losses"}, {"fig", "ax"}),
    Cell({"new_src_mesh", "scale", "center", "os", "save_obj"},
         {"final_verts", "final_faces", "final_obj"})
    >>

Notebooks == {"part_000", "part_001", "part_002", "camera_position", "deform"}

Cells(name) ==
    CASE name = "part_000" -> Cells_part_000
      [] name = "part_001" -> Cells_part_001
      [] name = "part_002" -> Cells_part_002
      [] name = "camera_position" -> Cells_camera_position
      [] name = "deform" -> Cells_deform

\* the names a path leaves bound in the kernel
Binds_none(path) == {}
Binds(path) == path.binds

\* a fresh kernel: no name is bound
NbInit ==
    /\ CoreIdle /\ VwIdle /\ ChIdle /\ RpIdle /\ LpIdle /\ ObsDfIdle /\ ObsCpIdle
    /\ nb_pc = "run"
    /\ nb_name \in Notebooks
    /\ nb_next = 1
    /\ namespace = {}

\* the next cell is executed: a read of a name that is not bound raises
\* NameError and ends the run
NbExecuteCell ==
    /\ nb_pc = "run"
    /\ nb_next <= Len(Cells(nb_name))
    /\ \E path \in Cells(nb_name)[nb_next] :
          IF path.needs \subseteq namespace
          THEN /\ namespace' = namespace \cup Binds(path)
               /\ nb_next' = nb_next + 1
               /\ UNCHANGED nb_pc
          ELSE /\ nb_pc' = "NameError"
               /\ UNCHANGED <<nb_next, namespace>>
    /\ UNCHANGED nb_name
    /\ UNCHANGED othersNb

\* the last cell has been executed
NbEnd ==
    /\ nb_pc = "run"
    /\ nb_next > Len(Cells(nb_name))
    /\ nb_pc' = "done"
    /\ UNCHANGED <<nb_name, nb_next, namespace>>
    /\ UNCHANGED othersNb

NbNext ==
    \/ NbExecuteCell
    \/ NbEnd

SpecNotebook == NbInit /\ [][NbNext]_vars

\* C14: when the code cells of a notebook are executed once, in document
\* order, in a fresh kernel, every name a cell reads has been bound by an
\* earlier cell of the same notebook or earlier in the same cell.
C14_NamesBoundBeforeRead ==
    nb_pc # "NameError"

\* the fit-mesh notebook has run to its end; its loops called
\* visualize_prediction, its save cell read new_src_mesh, scale and center
C14_Witness ==
    /\ nb_pc = "done"
    /\ nb_name = "part_001"
    /\ {"visualize_prediction", "new_src_mesh", "scale", "center", "final_verts"}
           \subseteq namespace
    /\ "version_str" \notin namespace


(***************************************************************************)
(* The optimization loops together: the bundle-adjustment loop, the        *)
(* camera-position loop and the deform-mesh / fit-mesh loops.  ops is the  *)
(* sequence of the operations of the running loop.                         *)
(***************************************************************************)
LoopsInit == BaInit \/ CpInit \/ DfInit

LoopsNext ==
    \/ BaNext
    \/ CpNext
    \/ DfNext

SpecLoops == LoopsInit /\ [][LoopsNext]_vars

\* the operations of one iteration, in the order claimed
LoopBody == <<"zero_grad", "forward", "backward", "step">>

\* C15: every optimization loop performs, in each iteration, exactly one
\* optimizer.zero_grad(), then the forward loss computation, then exactly one
\* backward(), then exactly one optimizer.step(), in that order; each step
\* uses the gradients of that iteration's loss only.
C15_ZeroGradForwardBackwardStep ==
    /\ \A k \in 1..Len(ops) : ops[k] = LoopBody[((k - 1) % Len(LoopBody)) + 1]
    /\ ba_pc = "zero_grad" => Len(ops) = Len(LoopBody) * it
    /\ cp_pc = "zero_grad" => Len(ops) = Len(LoopBody) * cp_i
    /\ df_pc = "zero_grad" => Len(ops) = Len(LoopBody) * df_i
    /\ ba_pc = "step" => <<grad_log_R, grad_T>> = loss_grad
    /\ df_pc = "step" => df_grad = loss_grad

\* the second iteration of the bundle-adjustment loop has taken its step
\* with a non-zero gradient, after a first iteration with a non-zero step
C15_Witness ==
    /\ ba_pc = "status"
    /\ it = 1
    /\ Len(ops) = 2 * Len(LoopBody)
    /\ loss_grad[1][1] # Zero3
    /\ buf_log_R[1] # loss_grad[1][1]


(***************************************************************************)
(* The camera-position loop cell run to its end: the cell is a sequential  *)
(* program, so a step that can be taken is taken.                          *)
(***************************************************************************)
SpecCamPosFair == CpInit /\ [][CpNext]_vars /\ WF_vars(CpNext)

\* what holds of the loop at every moment: the iterations are among
\* 0..199, the loop goes on after an iteration only when its loss is not
\* below 200, it leaves at the iteration whose loss is below 200, and
\* writer.close() is executed at most once, after the loop
C16_LoopBounded ==
    /\ cp_executed \subseteq 0..(CpIters - 1)
    /\ cp_i <= CpIters
    /\ cp_pc = "save" => cp_loss >= LossThreshold
    /\ cp_break >= 0 =>
          /\ cp_loss < LossThreshold
          /\ cp_pc \in {"close", "closed"}
          /\ cp_executed = 0..cp_break
    /\ cp_closed = IF cp_pc = "closed" THEN 1 ELSE 0
    /\ cp_pc \in {"close", "closed"} /\ cp_break = -1 => cp_executed = 0..(CpIters - 1)

\* C16: the camera-position loop always terminates: it runs at most 200
\* iterations, stops at the first iteration whose loss is below 200, and in
\* both cases writer.close() is executed exactly once, after the last
\* iteration.
C16_LoopTerminatesAndCloses ==
    /\ []C16_LoopBounded
    /\ <>[](cp_pc = "closed" /\ cp_closed = 1)

\* the loop ran all its 200 iterations without a loss below 200 and the
\* writer was closed
C16_Witness ==
    /\ cp_pc = "closed"
    /\ cp_closed = 1
    /\ cp_break = -1
    /\ Cardinality(cp_executed) = CpIters


\* C17 (as stated): when the loop stops early, the camera position left in
\* the model is the one whose loss was found below 200.
C17_BreakLeavesEvaluatedPosition ==
    cp_break >= 0 => cp_position = cp_loss_position

\* C17 (amended): when the loop stops early, the camera position left in the
\* model is the one optimizer.step() made from the position whose loss was
\* found below 200: one step is applied between computing that loss and
\* leaving the loop.
C17_BreakLeavesSteppedPosition ==
    cp_break >= 0 =>
        /\ cp_loss < LossThreshold
        /\ cp_position = cp_loss_position + 1
        /\ cp_loss_position = cp_break

\* the loop left at its third iteration and the writer is closed
C17_Witness ==
    /\ cp_pc = "closed"
    /\ cp_break = 2
    /\ cp_loss_position = 2
    /\ cp_position = 3

\* C18: each saved frame and the loss shown in its title refer to the same
\* camera position: the image rendered for iteration i uses the
\* camera_position for which the displayed loss was computed.
C18_FrameShowsPositionOfItsLoss ==
    \A k \in 1..Len(cp_frames) : cp_frames[k].position = cp_frames[k].loss_position


\* n_iter as the notebook sets it
NotebookIterations == 2000

\* the iterations of a loop of n iterations that produce the status plot
PlotIterations(n) == { i \in 0..(n - 1) : StatusDueAt(i, n) }

\* the number of status plots made for iteration i
PlotsOf(i) == Cardinality({k \in 1..Len(ba_plots) : ba_plots[k].it = i})

\* C19: the bundle-adjustment loop runs exactly n_iter iterations with no
\* early exit; the status plot is produced exactly at the iterations that are
\* multiples of 200 and at the last iteration (for n_iter = 2000: at 0, 200,
\* ..., 1800 and 1999, 11 times), and 'Optimization finished.' is printed
\* after the last iteration.
C19_AllIterationsAndStatusPlots ==
    /\ it <= n_iter
    /\ ba_pc \in {"zero_grad", "finished"} => ba_steps = it
    /\ ba_pc = "finished" => it = n_iter
    /\ \A k \in 1..Len(ba_plots) : ba_plots[k].it < it
    /\ \A i \in 0..(it - 1) :
          PlotsOf(i) = IF i % PlotEvery = 0 \/ i = n_iter - 1 THEN 1 ELSE 0
    /\ PlotIterations(NotebookIterations)
          = { PlotEvery * j : j \in 0..9 } \cup { NotebookIterations - 1 }
    /\ Cardinality(PlotIterations(NotebookIterations)) = 11

\* the loop has finished after n_iter steps with the two status plots of
\* iteration 0 and of the last iteration
C19_Witness ==
    /\ ba_pc = "finished"
    /\ ba_steps = n_iter
    /\ Len(ba_plots) = 2
    /\ ba_plots[1].it = 0
    /\ ba_plots[2].it = n_iter - 1

\* the value a parameter had before the optimizer.step() that left it at p
\* with the momentum buffer buf
BeforeStep(p, buf, lr) ==
    [n \in DOMAIN p |-> [k \in 1..3 |-> p[n][k] + RoundDiv(lr[1] * buf[n][k], lr[2])]]

\* the status plot of the iteration that has just ended, if it made one
LastPlotIsCurrent ==
    /\ ba_pc \in {"zero_grad", "finished"}
    /\ Len(ba_plots) > 0
    /\ ba_plots[Len(ba_plots)].it = it - 1

\* C20: the cameras passed to plot_camera_scene at iteration it (and the
\* camera_distance of the status text, computed from the same
\* cameras_absolute) come from the parameter values held before that
\* iteration's optimizer.step(); the plot of the last iteration is therefore
\* not computed from the final parameter values.
C20_StatusUsesCamerasBeforeStep ==
    /\ ba_pc = "status" =>
          /\ cam_log_R = Masked(BeforeStep(log_R_absolute, buf_log_R, BaLr))
          /\ cam_T = Masked(BeforeStep(T_absolute, buf_T, BaLr))
    /\ LastPlotIsCurrent =>
          /\ ba_plots[Len(ba_plots)].log_R
                = Masked(BeforeStep(log_R_absolute, buf_log_R, BaLr))
          /\ ba_plots[Len(ba_plots)].T
                = Masked(BeforeStep(T_absolute, buf_T, BaLr))

\* the loop has finished and the plot of the last iteration shows cameras
\* that differ from the cameras of the final parameter values
C20_Witness ==
    /\ ba_pc = "finished"
    /\ LastPlotIsCurrent
    /\ ba_plots[Len(ba_plots)].it = n_iter - 1
    /\ ba_plots[Len(ba_plots)].log_R # Masked(log_R_absolute)
    /\ ba_plots[Len(ba_plots)].T # Masked(T_absolute)

(***************************************************************************)
(* The two install routes (C26, C27, C28), checked under SpecInstall.      *)
(***************************************************************************)
Ran(cmd) == \E k \in 1..Len(commands) : commands[k] = cmd

\* the first five characters of s, or all of s when it is shorter
Prefix5(s) == SubSeq(s, 1, IF Len(s) < 5 THEN Len(s) ELSE 5)

Torch110OnLinux ==
    /\ Prefix5(torch_version) = <<"1", ".", "1", "0", ".">>
    /\ Prefix5(platform) = <<"l", "i", "n", "u", "x">>

InWheelRoute == inst_pc \in {"wheel_version", "wheel_pip"}
InSourceRoute == inst_pc \in {"src_curl", "src_tar", "src_env", "src_pip"}

\* C26: when pytorch3d is missing exactly one install route runs, the
\* released-wheel route if and only if the torch version starts with "1.10."
\* and the platform starts with "linux", otherwise the from-source route, and
\* in the from-source route CUB_HOME is in the environment before the pip
\* install of the source is started.
C26_ExactlyOneRoute ==
    /\ (InWheelRoute \/ InSourceRoute => triggered)
    /\ (triggered /\ inst_pc # "check_need" =>
            \/ InWheelRoute \/ InSourceRoute \/ InstFinished)
    /\ (InWheelRoute \/ Ran("pip install wheel") =>
            /\ Torch110OnLinux
            /\ ~Ran("curl cub") /\ ~Ran("tar cub")
            /\ ~Ran("pip install source")
            /\ "CUB_HOME" \notin environ)
    /\ (InSourceRoute \/ Ran("curl cub") =>
            /\ ~Torch110OnLinux
            /\ ~Ran("pip install wheel")
            /\ version_str = <<>>)
    /\ (triggered /\ InstFinished =>
            IF Torch110OnLinux
            THEN commands \in {<<>>, <<"pip install wheel">>}
            ELSE commands = <<"curl cub", "tar cub", "pip install source">>)
    /\ (inst_pc = "src_pip" \/ Ran("pip install source") =>
            "CUB_HOME" \in environ)

\* the from-source route has run to its end on a platform that is not linux
C26_Witness ==
    /\ inst_pc = "done"
    /\ triggered
    /\ ~Torch110OnLinux
    /\ Ran("pip install source")
    /\ "CUB_HOME" \in environ

\* C27: in the released-wheel route the "_pyt" component of version_str is
\* the torch version with its dots removed (1100 for 1.10.0), so version_str
\* contains no "." character.
C27_PytComponentHasNoDots ==
    version_str # <<>> =>
        /\ \A k \in 1..Len(version_str) : version_str[k] # "."
        /\ \E n \in 1..Len(version_str) :
              SubSeq(version_str, n, Len(version_str))
                  = <<"_", "p", "y", "t">> \o RemoveDots(torch_version)

\* C28: the install fallback never raises: once it is triggered, for every
\* platform, torch version and torch build (a CPU-only build included), the
\* cell ends having run one of its pip install commands.
C28_FallbackReachesPipInstall ==
    triggered =>
        /\ inst_pc # "raised"
        /\ (inst_pc = "done" =>
                Ran("pip install wheel") \/ Ran("pip install source"))

(***************************************************************************)
(* The plots and the loss histories of the deform-mesh and fit-mesh loops  *)
(* (C21, C22, C23, C24), checked under SpecDeform.                         *)
(***************************************************************************)
\* Niter = 2000 in the deform-mesh and fit-mesh notebooks
FitIterations == 2000

\* the iterations of the current stage whose losses have been recorded
Recorded == df_i + (IF df_pc = "step" THEN 1 ELSE 0)

\* the plots made by the current stage
StagePlots == SelectSeq(df_plots, LAMBDA e : e.stage = df_stage)

\* C21: the mesh is plotted exactly at the iterations i with
\* i % plot_period = 0 (0, 250, ..., 1750: 8 times for Niter = 2000), the mesh
\* plotted is the one built before that iteration's optimizer step, and the
\* last iteration (1999) is not plotted inside the loop.
C21_PlotsAtMultiplesOfPlotPeriod ==
    /\ df_pc # "idle" =>
          /\ \A j \in 0..(Niter - 1) :
                j < Recorded =>
                    Cardinality({n \in 1..Len(StagePlots) : StagePlots[n].i = j})
                        = IF j % plot_period = 0 THEN 1 ELSE 0
          /\ \A n \in 1..Len(StagePlots) : StagePlots[n].i < Recorded
          /\ (df_pc = "step" /\ df_i % plot_period = 0 =>
                df_plots[Len(df_plots)].mesh = offset_verts(SrcMesh, deform_verts))
          /\ (df_pc = "zero_grad" /\ df_i >= 1 /\ (df_i - 1) % plot_period = 0 =>
                df_plots[Len(df_plots)].mesh
                    = offset_verts(SrcMesh, BeforeStep(deform_verts, df_buf, DfLr)))
    /\ {i \in 0..(FitIterations - 1) : i % plot_period = 0}
          = {plot_period * k : k \in 0..7}
    /\ (FitIterations - 1) % plot_period # 0

\* a loop has ended: its only plot is the one of iteration 0 and shows the
\* sphere, while the mesh of the last iteration is another one
C21_Witness ==
    /\ df_pc = "zero_grad"
    /\ df_i = Niter
    /\ Len(StagePlots) = 1
    /\ StagePlots[1].i = 0
    /\ StagePlots[1].mesh = SrcMesh
    /\ new_src_mesh # SrcMesh

\* C22: the recorded loss histories stay aligned: the four lists of the
\* deform-mesh loop and every losses[k]["values"] of the fit-mesh loops have
\* the same length after every iteration, the number of iterations completed,
\* and Niter when the loop ends; the n-th value of a list is the one of the
\* n-th iteration.
C22_LossHistoriesAligned ==
    df_pc # "idle" =>
        /\ DOMAIN losses = LossKeys(df_stage)
        /\ \A k \in DOMAIN losses :
              /\ Len(losses[k]) = Recorded
              /\ \A n \in 1..Len(losses[k]) : losses[k][n] = <<k, df_stage, n - 1>>
        /\ (df_i = Niter => \A k \in DOMAIN losses : Len(losses[k]) = Niter)

\* the textured stage has ended with Niter values in each of its five lists
C22_Witness ==
    /\ df_pc = "saved"
    /\ df_stage = "textured"
    /\ Cardinality(DOMAIN losses) = 5
    /\ \A k \in DOMAIN losses : Len(losses[k]) = Niter

\* C23: in the fit-mesh loops the total loss is the weighted sum over all
\* configured loss terms: the keys of the per-iteration dictionary loss are
\* the keys of losses, each term is added exactly once with its weight
\* losses[k]["weight"], and no configured term is left out.
C23_WeightedSumOverAllTerms ==
    df_pc = "step" /\ df_stage \in {"silhouette", "textured"} =>
        /\ DOMAIN loss_dict = DOMAIN losses
        /\ DOMAIN losses = LossKeys(df_stage)
        /\ \A k \in LossKeys(df_stage) :
              Cardinality({n \in 1..Len(sum_terms) : sum_terms[n].key = k}) = 1
        /\ \A n \in 1..Len(sum_terms) :
              /\ sum_terms[n].key \in LossKeys(df_stage)
              /\ sum_terms[n].weight = Weights(df_stage)[sum_terms[n].key]
              /\ sum_terms[n].value = loss_dict[sum_terms[n].key]
              /\ sum_terms[n].value = <<sum_terms[n].key, df_stage, df_i>>

\* an iteration of the textured stage has summed its five terms
C23_Witness ==
    /\ df_pc = "step"
    /\ df_stage = "textured"
    /\ df_i = 1
    /\ Len(sum_terms) = 5
    /\ \E n \in 1..Len(sum_terms) :
          sum_terms[n].key = "rgb" /\ sum_terms[n].weight = 100
    /\ \E n \in 1..Len(sum_terms) :
          sum_terms[n].key = "normal" /\ sum_terms[n].weight = 1

\* C24: the textured stage starts from the sphere: at its first iteration
\* deform_verts is all zero, so new_src_mesh has the vertices of src_mesh,
\* the optimizer carries no momentum from the silhouette stage, and the loss
\* histories hold no value recorded by the silhouette stage.
C24_TexturedStageStartsFromSphere ==
    /\ (df_stage = "textured" /\ df_i = 0 =>
          /\ deform_verts = ZeroOffsets
          /\ df_buf = ZeroOffsets
          /\ df_steps = 0
          /\ (df_pc \in {"backward", "step"} => new_src_mesh = src_mesh))
    /\ (df_stage = "textured" =>
          \A k \in DOMAIN losses : \A n \in 1..Len(losses[k]) :
              losses[k][n][2] = "textured")

\* the textured stage is about to build its first mesh; new_src_mesh is still
\* the deformed mesh the silhouette stage ended with
C24_Witness ==
    /\ df_stage = "textured"
    /\ df_i = 0
    /\ df_pc = "offset"
    /\ new_src_mesh # <<>>
    /\ new_src_mesh # src_mesh
    /\ deform_verts = ZeroOffsets

(***************************************************************************)
(* The data the loops only read (C25), checked under SpecLoops.            *)
(***************************************************************************)
\* C25: the optimization loops change only the optimized parameters: the
\* source mesh, the target data and, in the camera notebook, the model's mesh
\* and image_ref buffer have after any number of iterations the value they
\* had before the loop; vertex offsets are never accumulated on src_mesh.
C25_LoopsLeaveMeshesAndTargets ==
    /\ (df_pc # "idle" =>
          /\ src_mesh = SrcMesh
          /\ targets = nz_verts
          /\ nz_verts = Normalized(nz_notebook, TargetMesh, center, scale))
    /\ (cp_pc # "idle" =>
          /\ meshes = TeapotMesh
          /\ cp_image_ref = ReferenceSilhouette)

\* two optimizer steps have moved the offsets and the deformed mesh away from
\* the sphere
C25_Witness ==
    /\ df_pc = "backward"
    /\ df_steps >= 2
    /\ deform_verts # ZeroOffsets
    /\ new_src_mesh # src_mesh
    /\ src_mesh = SrcMesh

=============================================================================
